---- MODULE Spec2Model ----
(***************************************************************************)
(* A model of the per-worker speculative view of the block executor        *)
(* (aptos-move/block-executor/src/view.rs).                                *)
(*                                                                         *)
(* The module holds several specifications over one set of variables; each *)
(* one exercises one part of the view and leaves the other variables       *)
(* unchanged:                                                              *)
(*   Spec       the delayed-field engine driven by a caller that keeps     *)
(*              base_delta the way the VM and the unit tests do;           *)
(*   SpecDFAny  the delayed-field engine called with arbitrary base_delta; *)
(*   SpecId     the generation and validation of identifiers;              *)
(*   SpecExchange  the exchange of values and identifiers;                 *)
(*   SpecRes    the reads of a resource by the workers of the parallel     *)
(*              variant and by the sequential variant;                     *)
(*   SpecGroupSize  the reads of the size of a group by the workers of the *)
(*              parallel variant;                                          *)
(*   SpecGate   one view of either variant reading a resource and a group; *)
(*   SpecDep    the waits of the transactions for their dependencies, and  *)
(*              SpecDepFair, the same with workers and a scheduler that    *)
(*              keep running;                                              *)
(*   SpecNeeds  the resource reads of an execution and the reads that need *)
(*              an exchange at its end;                                    *)
(*   SpecGroupNeeds  the group reads of an execution and the group reads   *)
(*              that need an exchange at its end;                          *)
(*   SpecContract  try-add-delta of the view, in both variants, called by  *)
(*              a single worker on a stored aggregator;                    *)
(*   SpecLimits the delayed-field engine called with two limits;           *)
(*   SpecModules  the reads of modules, in both variants;                  *)
(*   SpecWrites the resource reads of a worker of the parallel variant     *)
(*              while the transactions below it write the key;             *)
(*   SpecWaits  the reads of a worker of the parallel variant that meet a  *)
(*              dependency, with their calls of wait_for_dependency;       *)
(*   SpecTags   the reads of the tags of a group by a worker of the        *)
(*              parallel variant.                                          *)
(***************************************************************************)
EXTENDS Integers, FiniteSets, Sequences, TLC

(***************************************************************************)
(* Bounds of the model.                                                    *)
(***************************************************************************)
\* The limit of the aggregator (max_value of the calls); store values and
\* delta magnitudes are drawn from 0..MaxValue (+1 for the deltas).
MaxValue == 3
\* How many times a loop over the store is answered Dependency before it ends.
MaxDeps == 1
\* The workers of the parallel variant.
NumWorkers == 2
\* The largest start_counter, and how many identifiers a block generates.
MaxStart == 2
MaxCalls == 3
\* The largest number a leaf of a stored value holds.
MaxLeaf == 1
\* The largest size the map answers for a group.
MaxGroupSize == 4
\* The transactions of the block that wait for dependencies, and how many
\* times wait_for_dependency is called in all.
NumTxns == 3
MaxWaits == 3

VARIABLES
    dfRead,        \* CapturedReads.delayed_field_reads[id] (NoRead when absent)
    dfFlags,       \* CapturedReads flags: incorrect_use, speculative_failure,
                   \* delta_application_failure
    callerBase,    \* the caller's base_delta (sum of the deltas that returned true)
    dfLast         \* the last call on the engine: operation, arguments, result

VARIABLES
    variant,       \* ViewState of the view: "Sync" (ParallelState) or "Unsync" (SequentialState)
    enabled,       \* SequentialState.dynamic_change_set_optimizations_enabled
    start_counter, \* start_counter of the state
    counter,       \* the shared identifier counter (AtomicU32 / RefCell<u32>)
    generated,     \* per worker, the identifiers generate_delayed_field_id returned to it
    idLast         \* the last validate_and_convert_delayed_field_id call

VARIABLES
    delayed_fields, \* the delayed-field store: identifier -> registered base value
    xPatch,         \* the last replace_values_with_identifiers call
    xRestore        \* the replace_identifiers_with_values call on its patched bytes

VARIABLES
    base_view,     \* what storage answers for the resource key
    mv_data,       \* the entry of the key: MVMap base entry, or UnsyncMap entry
    data_reads,    \* per worker, CapturedReads.data_reads[key]
    view_flags,    \* per worker, incorrect_use and speculative failure of its view
    frame,         \* per worker, where its resource read stands
    resLast,       \* the last resource read that returned
    resource_with_layout_read_set  \* SequentialState.resource_with_layout_read_set

VARIABLES
    group_base_view, \* what storage answers for the group key
    mv_group,        \* the group of the key in the map (group_data): tagged entries and size
    mv_group_meta,   \* the resource-level entry of the group key in the map (data)
    group_reads,     \* per worker, CapturedReads.group_reads[group_key]
    group_read_set   \* SequentialState.group_read_set

dfVars == <<dfRead, dfFlags, callerBase, dfLast>>
idVars == <<variant, enabled, start_counter, counter, generated, idLast>>
\* Everything but the captured delayed-field read of the engine.
xVars == <<delayed_fields, xPatch, xRestore>>
resVars == <<base_view, mv_data, data_reads, view_flags, frame, resLast, resource_with_layout_read_set>>
groupVars == <<group_base_view, mv_group, mv_group_meta, group_reads, group_read_set>>

VARIABLES
    txn_state,     \* per transaction: "executing" or "finished"
    halted,        \* the block execution is halted
    wait_pc,       \* per transaction, where it is in wait_for_dependency
    dep_idx,       \* per transaction, the transaction it waits for (0: none)
    dep_resolved,  \* per transaction, the DependencyStatus its condition guards
    dep_lock,      \* per transaction, who holds the mutex of its condition
    waits,         \* the calls of wait_for_dependency so far
    wait_last      \* per transaction, its last call of wait_for_dependency

depVars == <<txn_state, halted, wait_pc, dep_idx, dep_resolved, dep_lock, waits, wait_last>>
VARIABLES
    needs_last,    \* the last call of get_(group_)reads_needing_exchange
    tags_read      \* the tags the sequential thread read with a value and a
                   \* layout in its attempt (the code keeps the group key only)

needsVars == <<needs_last, tags_read>>
VARIABLES
    module_reads,  \* CapturedReads.module_reads of the view
    module_last    \* the last call of get_module_state_value

modVars == <<module_reads, module_last>>
VARIABLES
    mv_written     \* the write of a lower transaction that is the visible
                   \* version of the resource key in the map, if there is one

writeVars == <<mv_written>>
\* The variables of the parts of the view modelled after the reads.
restVars == <<depVars, needsVars, modVars, writeVars>>
viewVars == <<idVars, xVars, resVars, groupVars, restVars>>
vars == <<dfVars, idVars, xVars, resVars, groupVars, restVars>>

(***************************************************************************)
(* SignedU128 is modelled as an integer: Positive(v) is v, Negative(v) is  *)
(* -v.  Option<u128> is modelled as a set with at most one element.        *)
(***************************************************************************)
Abs(x) == IF x < 0 THEN -x ELSE x
Minus(x) == -x
None == {}
Some(x) == {x}
TheOne(s) == CHOOSE x \in s : TRUE
MaxOf(a, b) == IF a >= b THEN a ELSE b
MinOf(a, b) == IF a <= b THEN a ELSE b

Values == 0..MaxValue
Deltas == (-(MaxValue + 1))..(MaxValue + 1)

(***************************************************************************)
(* BoundedMath (aptos_aggregator::bounded_math).                           *)
(***************************************************************************)
MathOk(v) == [ok |-> TRUE, v |-> v]
MathErr(e) == [ok |-> FALSE, e |-> e]

unsigned_add(max_value, base, value) ==
    IF max_value < base \/ value > max_value - base
    THEN MathErr("Overflow")
    ELSE MathOk(base + value)

unsigned_subtract(base, value) ==
    IF value > base THEN MathErr("Underflow") ELSE MathOk(base - value)

unsigned_add_delta(max_value, base, delta) ==
    IF delta >= 0
    THEN unsigned_add(max_value, base, delta)
    ELSE unsigned_subtract(base, Abs(delta))

signed_add(max_value, left, right) ==
    IF left >= 0 /\ right >= 0
    THEN LET r == unsigned_add(max_value, left, right)
         IN IF r.ok THEN MathOk(r.v) ELSE r
    ELSE IF left < 0 /\ right < 0
    THEN LET r == unsigned_add(max_value, Abs(left), Abs(right))
         IN IF r.ok THEN MathOk(-(r.v)) ELSE r
    ELSE MathOk(left + right)

\* A mutant of ok_overflow: an Overflow stays an error.
ok_overflow_strict(r) ==
    IF r.ok THEN [ok |-> TRUE, v |-> Some(r.v)] ELSE r

\* ok_overflow: an Overflow becomes Ok(None), an Underflow stays an error.
ok_overflow(r) ==
    IF r.ok THEN [ok |-> TRUE, v |-> Some(r.v)]
    ELSE IF r.e = "Overflow" THEN [ok |-> TRUE, v |-> None]
    ELSE r

(***************************************************************************)
(* DeltaHistory (aptos_aggregator::delta_math).                            *)
(***************************************************************************)
NewHistory ==
    [max_achieved_positive_delta |-> 0,
     min_achieved_negative_delta |-> 0,
     min_overflow_positive_delta |-> None,
     max_underflow_negative_delta |-> None]

\* A mutant of record_success: the achieved delta is replaced, not maximised.
record_success_last(h, delta) ==
    IF delta >= 0
    THEN [h EXCEPT !.max_achieved_positive_delta = delta]
    ELSE [h EXCEPT !.min_achieved_negative_delta = Abs(delta)]

record_success(h, delta) ==
    IF delta >= 0
    THEN [h EXCEPT !.max_achieved_positive_delta = MaxOf(@, delta)]
    ELSE [h EXCEPT !.min_achieved_negative_delta = MaxOf(@, Abs(delta))]

\* A mutant of record_overflow: the largest overflowing delta is kept.
record_overflow_largest(h, d) ==
    [h EXCEPT !.min_overflow_positive_delta =
        IF @ = None THEN Some(d) ELSE Some(MaxOf(TheOne(@), d))]

record_overflow(h, d) ==
    [h EXCEPT !.min_overflow_positive_delta =
        IF @ = None THEN Some(d) ELSE Some(MinOf(TheOne(@), d))]

\* A mutant of record_underflow: the largest underflowing delta is kept.
record_underflow_largest(h, d) ==
    [h EXCEPT !.max_underflow_negative_delta =
        IF @ = None THEN Some(d) ELSE Some(MaxOf(TheOne(@), d))]

record_underflow(h, d) ==
    [h EXCEPT !.max_underflow_negative_delta =
        IF @ = None THEN Some(d) ELSE Some(MinOf(TheOne(@), d))]

\* Whether the history still holds when the aggregator's base value is `base`.
validate_against_base_value(h, base, max_value) ==
    /\ unsigned_add(max_value, base, h.max_achieved_positive_delta).ok
    /\ unsigned_subtract(base, h.min_achieved_negative_delta).ok
    /\ \A d \in h.min_overflow_positive_delta :
          ~ unsigned_add(max_value, base, d).ok
    /\ \A d \in h.max_underflow_negative_delta :
          ~ unsigned_subtract(base, d).ok

(***************************************************************************)
(* DelayedFieldRead and CapturedReads (crate::captured_reads).             *)
(***************************************************************************)
NoRead == [kind |-> "None"]
ValueRead(v) == [kind |-> "Value", value |-> v]
HistoryBounded(h, max_value, inner) ==
    [kind |-> "HistoryBounded", restriction |-> h, max_value |-> max_value,
     inner_aggregator_value |-> inner]

\* DelayedFieldReadKind: Value > HistoryBounded.
KindRank(k) == IF k = "Value" THEN 2 ELSE IF k = "HistoryBounded" THEN 1 ELSE 0

get_delayed_field_by_kind(read, min_kind) ==
    IF read.kind # "None" /\ KindRank(read.kind) >= KindRank(min_kind)
    THEN read ELSE NoRead

NoFlags ==
    [incorrect_use |-> FALSE, speculative_failure |-> FALSE,
     delta_application_failure |-> FALSE]

\* CapturedReads::mark_failure: the application of a delta failed.
mark_failure(flags) == [flags EXCEPT !.delta_application_failure = TRUE]

\* capture_delayed_field_read_error: a panic marks incorrect use, any other
\* error a speculative failure.
capture_delayed_field_read_error(flags, err) ==
    IF err = "CodeInvariantError"
    THEN [flags EXCEPT !.incorrect_use = TRUE]
    ELSE [flags EXCEPT !.speculative_failure = TRUE]

\* capture_delayed_field_read(id, update, read): the entry after the call,
\* the flags after the call, and the error (or "Ok").
capture_delayed_field_read(existing, flags, update, read) ==
    IF existing.kind = "None"
    THEN [read |-> read, flags |-> flags, err |-> "Ok"]
    ELSE IF KindRank(read.kind) < KindRank(existing.kind)
            \/ (~update /\ read.kind = existing.kind)
    THEN [read |-> existing,
          flags |-> capture_delayed_field_read_error(flags, "CodeInvariantError"),
          err |-> "CodeInvariantError"]
    ELSE IF read.kind = existing.kind
    THEN [read |-> read, flags |-> flags, err |-> "Ok"]
    ELSE \* a HistoryBounded entry upgraded by a Value read
         IF validate_against_base_value(existing.restriction, read.value,
                                        existing.max_value)
         THEN [read |-> read, flags |-> flags, err |-> "Ok"]
         ELSE [read |-> existing,
               flags |-> capture_delayed_field_read_error(flags, "InconsistentRead"),
               err |-> "InconsistentRead"]

(***************************************************************************)
(* The delayed-field engine of view.rs.                                    *)
(***************************************************************************)
\* expect_ok: an error of the bounded math becomes a code invariant error.
OutcomeErr(e) == [err |-> e]
OutcomeOk(result, read) == [err |-> "Ok", result |-> result, read |-> read]

\* A mutant of history_before_value: the value before the delta leaves out
\* base_delta.
history_before_value_without_base(max_value, base_aggregator_value, base_delta) ==
    MathOk(base_aggregator_value)

\* line 228: the aggregator's value before the delta is applied.
history_before_value(max_value, base_aggregator_value, base_delta) ==
    unsigned_add_delta(max_value, base_aggregator_value, base_delta)

\* A mutant of history_overflow_delta: the forbidden delta is the raw delta,
\* as it is on the first call.
history_overflow_delta_raw(max_value, delta_value, base_delta) ==
    ok_overflow(MathOk(delta_value))

\* lines 233-235: the smallest positive delta known to overflow.
history_overflow_delta(max_value, delta_value, base_delta) ==
    ok_overflow(unsigned_add_delta(max_value, delta_value, base_delta))

\* A mutant of history_underflow_delta: the forbidden delta is the raw delta.
history_underflow_delta_raw(max_value, delta_value, base_delta) ==
    ok_overflow(MathOk(delta_value))

\* lines 243-245: the smallest negative delta known to underflow.
history_underflow_delta(max_value, delta_value, base_delta) ==
    ok_overflow(unsigned_add_delta(max_value, delta_value, Minus(base_delta)))

\* A mutant of history_read: the entry does not keep the value it was
\* captured at.
history_read_unanchored(history, max_value, base_aggregator_value) ==
    HistoryBounded(history, max_value, 0)

\* Lines 260-264: the read the update of the history returns.
history_read(history, max_value, base_aggregator_value) ==
    HistoryBounded(history, max_value, base_aggregator_value)

\* A mutant of compute_delayed_field_try_add_delta_outcome_from_history: a
\* delta that does not fit is not recorded.
compute_delayed_field_try_add_delta_outcome_from_history_unrecorded(base_delta, delta, max_value, history, base_aggregator_value) ==
    LET before_value == history_before_value(max_value, base_aggregator_value, base_delta)
        new_delta == signed_add(max_value, base_delta, delta)
    IN
    IF ~before_value.ok THEN OutcomeErr("CodeInvariantError")
    ELSE IF ~unsigned_add_delta(max_value, before_value.v, delta).ok
    THEN OutcomeOk(FALSE, history_read(history, max_value, base_aggregator_value))
    ELSE IF ~new_delta.ok THEN OutcomeErr("CodeInvariantError")
    ELSE OutcomeOk(TRUE, history_read(record_success(history, new_delta.v),
                                      max_value, base_aggregator_value))

compute_delayed_field_try_add_delta_outcome_from_history(base_delta, delta, max_value, history, base_aggregator_value) ==
    LET before_value == history_before_value(max_value, base_aggregator_value, base_delta)
    IN
    IF ~before_value.ok THEN OutcomeErr("CodeInvariantError")
    ELSE IF ~unsigned_add_delta(max_value, before_value.v, delta).ok
    THEN IF delta >= 0
         THEN LET overflow_delta == history_overflow_delta(max_value, delta, base_delta)
              IN IF ~overflow_delta.ok THEN OutcomeErr("CodeInvariantError")
                 ELSE OutcomeOk(FALSE,
                        history_read(
                            IF overflow_delta.v # None
                            THEN record_overflow(history, TheOne(overflow_delta.v))
                            ELSE history,
                            max_value, base_aggregator_value))
         ELSE LET underflow_delta ==
                      history_underflow_delta(max_value, Abs(delta), base_delta)
              IN IF ~underflow_delta.ok THEN OutcomeErr("CodeInvariantError")
                 ELSE OutcomeOk(FALSE,
                        history_read(
                            IF underflow_delta.v # None
                            THEN record_underflow(history, TheOne(underflow_delta.v))
                            ELSE history,
                            max_value, base_aggregator_value))
    ELSE LET new_delta == signed_add(max_value, base_delta, delta)
         IN IF ~new_delta.ok THEN OutcomeErr("CodeInvariantError")
            ELSE OutcomeOk(TRUE,
                    history_read(record_success(history, new_delta.v),
                                   max_value, base_aggregator_value))

\* A mutant of compute_delayed_field_try_add_delta_outcome_first_time: the
\* value read from the store is not the one the entry keeps.
compute_delayed_field_try_add_delta_outcome_first_time_of_zero(delta, max_value, base_aggregator_value) ==
    compute_delayed_field_try_add_delta_outcome_from_history(0, delta, max_value, NewHistory, 0)

compute_delayed_field_try_add_delta_outcome_first_time(delta, max_value, base_aggregator_value) ==
    IF ~unsigned_add_delta(max_value, base_aggregator_value, delta).ok
    THEN OutcomeOk(FALSE,
            HistoryBounded(
                IF delta >= 0 THEN record_overflow(NewHistory, delta)
                ELSE record_underflow(NewHistory, Abs(delta)),
                max_value, base_aggregator_value))
    ELSE OutcomeOk(TRUE,
            HistoryBounded(record_success(NewHistory, delta),
                           max_value, base_aggregator_value))

\* What a loop over the delayed-field store ends with: the store answers
\* Dependency n_deps times with wait_for_dependency returning true, and then
\*   "Ok"      it answers the value;
\*   "Halted"  it answers Dependency and wait_for_dependency returns false;
\*   "Error"   it answers another error (NotFound, DeltaApplicationFailure);
\*   "Panic"   it answers a code invariant error (read only).
LatestOutcomes == {"Ok", "Halted", "Error"}
ReadOutcomes == {"Ok", "Halted", "Error", "Panic"}

BoolRet(b) == IF b THEN "true" ELSE "false"
ImplRet(ret, read, flags, store_reads) ==
    [ret |-> ret, read |-> read, flags |-> flags, store_reads |-> store_reads]

\* A mutant of try_add_delta_outcome_on_value: base_delta is left out.
try_add_delta_outcome_on_value_without_base(value, base_delta, delta, max_value) ==
    BoolRet(unsigned_add_delta(max_value, value, delta).ok)

\* lines 319-325: the outcome when a Value read is captured.
try_add_delta_outcome_on_value(value, base_delta, delta, max_value) ==
    LET before == unsigned_add_delta(max_value, value, base_delta)
    IN IF ~before.ok THEN "CodeInvariantError"
       ELSE BoolRet(unsigned_add_delta(max_value, before.v, delta).ok)

\* A mutant of delta_exceeds_bound: the bound is never exceeded.
delta_exceeds_bound_never(delta, max_value) == FALSE

\* line 311: the input value exceeds the bound.
delta_exceeds_bound(delta, max_value) == Abs(delta) > max_value

\* A mutant of different_limits: the limits are not compared.
different_limits_ignored(before_max_value, max_value) == FALSE

\* line 331: the entry was captured with another limit.
different_limits(before_max_value, max_value) == before_max_value # max_value

\* The result of the call, the captured read and the flags after it, and
\* the number of reads of the delayed-field store it made.
delayed_field_try_add_delta_outcome_impl(read, flags, store, base_delta, delta, max_value, outcome, n_deps) ==
    IF delta_exceeds_bound(delta, max_value) THEN ImplRet("false", read, flags, 0)
    ELSE
    LET delayed_read == get_delayed_field_by_kind(read, "HistoryBounded") IN
    CASE delayed_read.kind = "Value" ->
            ImplRet(try_add_delta_outcome_on_value(delayed_read.value, base_delta,
                                                   delta, max_value),
                    read, flags, 0)
      [] delayed_read.kind = "HistoryBounded" ->
            IF different_limits(delayed_read.max_value, max_value)
            THEN ImplRet("CodeInvariantError", read, flags, 0)
            ELSE LET r == compute_delayed_field_try_add_delta_outcome_from_history(
                              base_delta, delta, max_value,
                              delayed_read.restriction,
                              delayed_read.inner_aggregator_value)
                 IN IF r.err # "Ok" THEN ImplRet(r.err, read, flags, 0)
                    ELSE LET c == capture_delayed_field_read(read, flags, TRUE, r.read)
                         IN IF c.err # "Ok" THEN ImplRet(c.err, c.read, c.flags, 0)
                            ELSE ImplRet(BoolRet(r.result), c.read, c.flags, 0)
      [] OTHER ->
            IF base_delta # 0 THEN ImplRet("CodeInvariantError", read, flags, 0)
            ELSE IF outcome # "Ok"
            THEN ImplRet("InconsistentRead", read, flags, n_deps + 1)
            ELSE LET r == compute_delayed_field_try_add_delta_outcome_first_time(
                              delta, max_value, store)
                     c == capture_delayed_field_read(read, flags, FALSE, r.read)
                 IN IF c.err # "Ok" THEN ImplRet(c.err, c.read, c.flags, n_deps + 1)
                    ELSE ImplRet(BoolRet(r.result), c.read, c.flags, n_deps + 1)

\* Lines 192-201: the Value read of the value the store returned was
\* captured (c), or the capture failed and its error is returned.
value_read_captured_ignoring_error(c, store, n_deps) ==
    [ret |-> "Ok", value |-> store, read |-> c.read, flags |-> c.flags,
     store_reads |-> n_deps + 1]

value_read_captured(c, store, n_deps) ==
    IF c.err # "Ok"
    THEN [ret |-> c.err, value |-> 0, read |-> c.read, flags |-> c.flags,
          store_reads |-> n_deps + 1]
    ELSE [ret |-> "Ok", value |-> store, read |-> c.read, flags |-> c.flags,
          store_reads |-> n_deps + 1]

\* Lines 190-216: the loop over the store.
read_value_of_store(read, flags, store, outcome, n_deps) ==
    CASE outcome = "Ok" ->
            value_read_captured(capture_delayed_field_read(read, flags, FALSE, ValueRead(store)),
                                store, n_deps)
      [] outcome = "Halted" ->
            [ret |-> "InconsistentRead", value |-> 0, read |-> read, flags |-> flags,
             store_reads |-> n_deps + 1]
      [] outcome = "Panic" ->
            [ret |-> "CodeInvariantError", value |-> 0, read |-> read,
             flags |-> capture_delayed_field_read_error(flags, "CodeInvariantError"),
             store_reads |-> n_deps + 1]
      [] OTHER ->
            [ret |-> "InconsistentRead", value |-> 0, read |-> read,
             flags |-> capture_delayed_field_read_error(flags, "Error"),
             store_reads |-> n_deps + 1]

\* A mutant of get_delayed_field_value_impl: the captured read is not
\* looked up.
get_delayed_field_value_impl_uncached(read, flags, store, outcome, n_deps) ==
    read_value_of_store(read, flags, store, outcome, n_deps)

\* ret is "Ok" (with the value) or the error.
get_delayed_field_value_impl(read, flags, store, outcome, n_deps) ==
    LET delayed_read == get_delayed_field_by_kind(read, "Value") IN
    IF delayed_read.kind # "None"
    THEN IF delayed_read.kind = "Value"
         THEN [ret |-> "Ok", value |-> delayed_read.value, read |-> read,
               flags |-> flags, store_reads |-> 0]
         ELSE [ret |-> "CodeInvariantError", value |-> 0, read |-> read,
               flags |-> capture_delayed_field_read_error(flags, "CodeInvariantError"),
               store_reads |-> 0]
    ELSE read_value_of_store(read, flags, store, outcome, n_deps)

(***************************************************************************)
(* The delayed-field engine: state and actions.                            *)
(*                                                                         *)
(* The delayed-field store (MVHashMap::delayed_fields) is shared with the  *)
(* other workers, whose writes change what it answers for the identifier   *)
(* between any two reads: a read is answered any value of Values, or a     *)
(* dependency or an error.  An answer is                                   *)
(*   [outcome, value, n_deps]                                              *)
(* and is drawn only by the calls that read the store.                     *)
(***************************************************************************)
DepCounts == 0..MaxDeps
NoAnswer == [outcome |-> "Ok", value |-> 0, n_deps |-> 0]
Answers(outcomes) ==
    {[outcome |-> o, value |-> v, n_deps |-> n] :
        o \in outcomes, v \in Values, n \in DepCounts}
\* An outcome other than "Ok" carries no value.
AnswersOf(outcomes) ==
    {a \in Answers(outcomes) : a.outcome # "Ok" => a.value = 0}

NoCall == [op |-> "none", ret |-> "none", value |-> 0, store_reads |-> 0, observed |-> None]

DFInit ==
    /\ dfRead = NoRead
    /\ dfFlags = NoFlags
    /\ callerBase = 0
    /\ dfLast = NoCall

\* Whether the call reads the store (lines 353-380).
TryAddReadsStore(base_delta, delta, max_value) ==
    /\ Abs(delta) <= max_value
    /\ dfRead.kind = "None"
    /\ base_delta = 0

\* The answers of the store a call may meet.
TryAddAnswers(base_delta, delta, max_value) ==
    IF TryAddReadsStore(base_delta, delta, max_value)
    THEN AnswersOf(LatestOutcomes) ELSE {NoAnswer}

\* One call of delayed_field_try_add_delta_outcome_impl.
TryAdd(base_delta, delta, max_value, answer) ==
    LET r == delayed_field_try_add_delta_outcome_impl(
                 dfRead, dfFlags, answer.value, base_delta, delta, max_value,
                 answer.outcome, answer.n_deps)
    IN /\ dfRead' = r.read
       /\ dfFlags' = r.flags
       /\ dfLast' = [op |-> "try_add", ret |-> r.ret, value |-> 0,
                     store_reads |-> r.store_reads, observed |-> None]

\* The caller of the unit tests (assert_try_add) and of the VM: base_delta is
\* the sum of the deltas of the calls that returned true.
TryAddDelta ==
    \E delta \in Deltas :
        \E answer \in TryAddAnswers(callerBase, delta, MaxValue) :
            /\ TryAdd(callerBase, delta, MaxValue, answer)
            /\ callerBase' =
                  IF dfLast'.ret = "true" /\ signed_add(MaxValue, callerBase, delta).ok
                  THEN signed_add(MaxValue, callerBase, delta).v
                  ELSE callerBase
            /\ UNCHANGED viewVars

\* A call with a base_delta of the caller's choice.
TryAddDeltaAny ==
    \E base_delta \in Deltas, delta \in Deltas :
        \E answer \in TryAddAnswers(base_delta, delta, MaxValue) :
            /\ TryAdd(base_delta, delta, MaxValue, answer)
            /\ UNCHANGED callerBase
            /\ UNCHANGED viewVars

\* Lines 1646-1663: the sequential variant evaluates the call on the value
\* the UnsyncMap holds for the identifier.
sequential_try_add_delta_outcome_without_base(store, id, base_delta, delta, max_value) ==
    IF id \notin DOMAIN store THEN "CodeInvariantError"
    ELSE BoolRet(unsigned_add_delta(max_value, store[id].v, delta).ok)

sequential_try_add_delta_outcome(store, id, base_delta, delta, max_value) ==
    IF id \notin DOMAIN store THEN "CodeInvariantError"
    ELSE try_add_delta_outcome_on_value(store[id].v, base_delta, delta, max_value)

\* The identifier of the aggregator the engine is called on.
TheId == 0

\* What the store answers a single worker for the identifier: its value,
\* after any number of dependencies that got resolved.
StoredAnswers(store, base_delta, delta, max_value) ==
    IF TryAddReadsStore(base_delta, delta, max_value)
    THEN {[outcome |-> "Ok", value |-> store[TheId].v, n_deps |-> n] : n \in DepCounts}
    ELSE {NoAnswer}

\* delayed_field_try_add_delta_outcome (1631-1666) of the view, called with
\* delta by the caller that keeps base_delta: the parallel variant runs the
\* engine on its captured reads, the sequential one evaluates directly.
TryAddDeltaOutcomeOf(delta) ==
    /\ IF variant = "Sync"
       THEN \E answer \in StoredAnswers(delayed_fields, callerBase, delta, MaxValue) :
               TryAdd(callerBase, delta, MaxValue, answer)
       ELSE /\ dfLast' = [op |-> "try_add",
                          ret |-> sequential_try_add_delta_outcome(
                                      delayed_fields, TheId, callerBase, delta, MaxValue),
                          value |-> 0, store_reads |-> 1, observed |-> None]
            /\ UNCHANGED <<dfRead, dfFlags>>
    /\ callerBase' =
          IF dfLast'.ret = "true" /\ signed_add(MaxValue, callerBase, delta).ok
          THEN signed_add(MaxValue, callerBase, delta).v
          ELSE callerBase
    /\ UNCHANGED viewVars

TryAddDeltaOutcome == \E delta \in Deltas : TryAddDeltaOutcomeOf(delta)

\* The limits an aggregator is called with: its own and a smaller one.
Limits == (MaxValue - 1)..MaxValue
\* A call with a limit and a base_delta of the caller's choice; the store
\* answers a value within the limit.
TryAddDeltaWithLimit ==
    \E max_value \in Limits, base_delta \in Deltas, delta \in Deltas :
        \E answer \in {a \in TryAddAnswers(base_delta, delta, max_value) :
                          a.value <= max_value} :
            /\ TryAdd(base_delta, delta, max_value, answer)
            /\ UNCHANGED callerBase
            /\ UNCHANGED viewVars

\* One call of get_delayed_field_value_impl.
GetValueWith(answer) ==
    LET r == get_delayed_field_value_impl(dfRead, dfFlags, answer.value,
                                          answer.outcome, answer.n_deps)
    IN /\ dfRead' = r.read
       /\ dfFlags' = r.flags
       \* observed: the value the store returned to the call, if it returned one
       /\ dfLast' = [op |-> "get_value", ret |-> r.ret, value |-> r.value,
                     store_reads |-> r.store_reads,
                     observed |-> IF r.store_reads > 0 /\ answer.outcome = "Ok"
                                  THEN Some(answer.value) ELSE None]
       /\ UNCHANGED callerBase

GetValue ==
    \E answer \in IF dfRead.kind = "Value"
                  THEN {NoAnswer} ELSE AnswersOf(ReadOutcomes) :
        /\ GetValueWith(answer)
        /\ UNCHANGED viewVars

(***************************************************************************)
(* The identifier generator of the view (TDelayedFieldView).               *)
(***************************************************************************)
Workers == 1..NumWorkers
\* The workers that hold a view on the state: one thread in the sequential variant.
ActiveWorkers == IF variant = "Sync" THEN Workers ELSE {1}

StartCounters == 0..MaxStart
Ids == 0..(MaxStart + MaxCalls + 1)

\* AtomicU32::fetch_add(1, SeqCst): the previous value, and the value stored.
\* The counter is a u32; generate_delayed_field_id caps it far below 2^32, so
\* the sum never wraps here.
fetch_add_without_store(c) == [ret |-> c, new |-> c]

fetch_add(c) == [ret |-> c, new |-> c + 1]

\* let id = *counter; *counter += 1
unsync_increment(c) == [ret |-> c, new |-> c + 1]

next_delayed_field_id(c) == IF variant = "Sync" THEN fetch_add(c) ELSE unsync_increment(c)

NoValidate == [op |-> "none", id |-> 0, current |-> 0, ret |-> "none"]

\* The identifier part of a view nobody has used yet.
IdIdle(v, e, start) ==
    /\ variant = v
    /\ enabled = e
    /\ start_counter = start
    /\ counter = start
    /\ generated = [w \in Workers |-> << >>]
    /\ idLast = NoValidate

generate_delayed_field_id(w) ==
    /\ counter < start_counter + MaxCalls
    /\ LET r == next_delayed_field_id(counter)
       IN /\ counter' = r.new
          /\ generated' = [generated EXCEPT ![w] = Append(@, r.ret)]
    /\ UNCHANGED <<variant, enabled, start_counter, idLast>>
    /\ UNCHANGED <<dfVars, xVars, resVars, groupVars, restVars>>

\* A mutant of validate_and_convert_delayed_field_id: the identifier equal
\* to the counter is refused too.
validate_and_convert_delayed_field_id_below_counter(id) ==
    /\ idLast' = [op |-> "validate", id |-> id, current |-> counter,
                  ret |-> IF id < start_counter THEN "CodeInvariantError"
                          ELSE IF id >= counter THEN "CodeInvariantError"
                          ELSE "Ok"]
    /\ UNCHANGED <<variant, enabled, start_counter, counter, generated>>
    /\ UNCHANGED <<dfVars, xVars, resVars, groupVars, restVars>>

validate_and_convert_delayed_field_id(id) ==
    /\ idLast' = [op |-> "validate", id |-> id, current |-> counter,
                  ret |-> IF id < start_counter THEN "CodeInvariantError"
                          ELSE IF id > counter THEN "CodeInvariantError"
                          ELSE "Ok"]
    /\ UNCHANGED <<variant, enabled, start_counter, counter, generated>>
    /\ UNCHANGED <<dfVars, xVars, resVars, groupVars, restVars>>

GenerateId == \E w \in ActiveWorkers : generate_delayed_field_id(w)
ValidateId == \E id \in Ids : validate_and_convert_delayed_field_id(id)

(***************************************************************************)
(* Values, layouts and the exchange of delayed-field values and            *)
(* identifiers.  A layout is the sequence of its leaves; a leaf is a       *)
(* primitive type, possibly tagged IdentifierMapping(kind).  Serialized    *)
(* bytes are the sequence of the leaves' encodings: a width in bytes and   *)
(* the number encoded.                                                     *)
(***************************************************************************)
Plain(type) == [mapping |-> "None", type |-> type]
Tagged(kind, type) == [mapping |-> kind, type |-> type]

LeafValues == 0..MaxLeaf
LeafWidth(type) == IF type = "U64" THEN 8 ELSE 16

\* The layouts of test_id_value_exchange, with one element per vector.
Layouts ==
    { <<Plain("U64"), Plain("U64")>>,
      <<Tagged("Aggregator", "U64"), Plain("U64")>>,
      <<Tagged("Snapshot", "U128")>>,
      <<Tagged("Aggregator", "U64"), Tagged("Snapshot", "U128")>> }

IsMapped(leaf) == leaf.mapping # "None"
MappedLeaves(layout) == {i \in 1..Len(layout) : IsMapped(layout[i])}

\* Value::simple_serialize of the value with leaves vals.
simple_serialize(vals, layout) ==
    [i \in 1..Len(layout) |-> [w |-> LeafWidth(layout[i].type), v |-> vals[i]]]

\* The serialized values of a layout.
BytesOf(layout) ==
    {simple_serialize(vals, layout) : vals \in [1..Len(layout) -> LeafValues]}

AllBytes == UNION {BytesOf(layout) : layout \in Layouts}

\* Whether the leaf at position i deserializes against the layout.
LeafDeserializes(bytes, layout, i) ==
    /\ i <= Len(bytes)
    /\ bytes[i].w = LeafWidth(layout[i].type)

\* VersionedDelayedFields::set_base_value / UnsyncMap::write_delayed_field.
set_delayed_field_value(store, id, base_value) ==
    [i \in (DOMAIN store) \cup {id} |-> IF i = id THEN base_value ELSE store[i]]

\* The state a mapping works on: the counter, the delayed-field store, the
\* delayed_field_keys of the mapping, and the leaves written so far.
MappingState(c, store) == [counter |-> c, store |-> store, keys |-> {}, out |-> << >>]

value_to_identifier_unregistered(kind, value, st) ==
    LET r == next_delayed_field_id(st.counter)
    IN [ok |-> TRUE,
        st |-> [st EXCEPT !.counter = r.new,
                          !.keys = @ \cup {r.ret},
                          !.out = Append(@, r.ret)]]

value_to_identifier(kind, value, st) ==
    LET r == next_delayed_field_id(st.counter)
        base_value == [kind |-> kind, v |-> value]
    IN [ok |-> TRUE,
        st |-> [st EXCEPT !.counter = r.new,
                          !.store = set_delayed_field_value(@, r.ret, base_value),
                          !.keys = @ \cup {r.ret},
                          !.out = Append(@, r.ret)]]

\* The expect() on a missing identifier panics: ok is FALSE.
identifier_to_value_allocating(identifier_value, st) ==
    LET id == identifier_value
    IN IF id \in DOMAIN st.store
       THEN [ok |-> TRUE,
             st |-> [st EXCEPT !.counter = next_delayed_field_id(@).new,
                               !.keys = @ \cup {id},
                               !.out = Append(@, st.store[id].v)]]
       ELSE [ok |-> FALSE, st |-> [st EXCEPT !.keys = @ \cup {id}]]

identifier_to_value(identifier_value, st) ==
    LET id == identifier_value
    IN IF id \in DOMAIN st.store
       THEN [ok |-> TRUE,
             st |-> [st EXCEPT !.keys = @ \cup {id},
                               !.out = Append(@, st.store[id].v)]]
       ELSE [ok |-> FALSE, st |-> [st EXCEPT !.keys = @ \cup {id}]]

\* The traversal of the leaves from position i on: a plain leaf is copied,
\* a tagged leaf goes through the mapping (to_ids: values to identifiers).
RECURSIVE exchange_leaves(_, _, _, _, _)
exchange_leaves(bytes, layout, i, to_ids, st) ==
    IF i > Len(layout)
    THEN [ok |-> Len(bytes) = Len(layout), st |-> st]
    ELSE IF ~LeafDeserializes(bytes, layout, i)
    THEN [ok |-> FALSE, st |-> st]
    ELSE IF ~IsMapped(layout[i])
    THEN exchange_leaves(bytes, layout, i + 1, to_ids,
                         [st EXCEPT !.out = Append(@, bytes[i].v)])
    ELSE LET r == IF to_ids
                  THEN value_to_identifier(layout[i].mapping, bytes[i].v, st)
                  ELSE identifier_to_value(bytes[i].v, st)
         IN IF r.ok
            THEN exchange_leaves(bytes, layout, i + 1, to_ids, r.st)
            ELSE r

ExchangeResult(r, layout) ==
    [ok |-> r.ok,
     bytes |-> IF r.ok THEN simple_serialize(r.st.out, layout) ELSE << >>,
     ids |-> r.st.keys,
     counter |-> r.st.counter,
     store |-> r.st.store]

replace_values_with_identifiers(bytes, layout, c, store) ==
    ExchangeResult(exchange_leaves(bytes, layout, 1, TRUE, MappingState(c, store)), layout)

replace_identifiers_with_values(bytes, layout, c, store) ==
    ExchangeResult(exchange_leaves(bytes, layout, 1, FALSE, MappingState(c, store)), layout)

NoExchange == [op |-> "none"]

XIdle ==
    /\ delayed_fields = << >>
    /\ xPatch = NoExchange
    /\ xRestore = NoExchange

\* A call of replace_values_with_identifiers on a serialized value.
ReplaceValuesWithIdentifiers ==
    \E layout \in Layouts, bytes \in AllBytes :
        /\ counter + Cardinality(MappedLeaves(layout)) <= start_counter + MaxCalls
        /\ \E r \in {replace_values_with_identifiers(bytes, layout, counter, delayed_fields)} :
              /\ counter' = r.counter
              /\ delayed_fields' = r.store
              /\ xPatch' = [op |-> "replace_values_with_identifiers", ok |-> r.ok,
                            bytes_in |-> bytes, layout |-> layout,
                            bytes_out |-> r.bytes, ids |-> r.ids]
              /\ xRestore' = NoExchange
        /\ UNCHANGED <<variant, enabled, start_counter, generated, idLast>>
        /\ UNCHANGED <<dfVars, resVars, groupVars, restVars>>

\* The call of replace_identifiers_with_values on the bytes it patched.
ReplaceIdentifiersWithValues ==
    /\ xPatch.op # "none"
    /\ xPatch.ok
    /\ \E r \in {replace_identifiers_with_values(xPatch.bytes_out, xPatch.layout,
                                                 counter, delayed_fields)} :
          /\ counter' = r.counter
          /\ delayed_fields' = r.store
          /\ xRestore' = [op |-> "replace_identifiers_with_values", ok |-> r.ok,
                          bytes_out |-> r.bytes, ids |-> r.ids]
    /\ UNCHANGED xPatch
    /\ UNCHANGED <<variant, enabled, start_counter, generated, idLast>>
    /\ UNCHANGED <<dfVars, resVars, groupVars, restVars>>

(***************************************************************************)
(* Resource reads.  One resource key is modelled.  A value (T::Value) is   *)
(* an optional state value: None for a deletion or an absent value,        *)
(* Some(bytes) otherwise.  The metadata of a state value carries nothing   *)
(* but its presence.                                                       *)
(***************************************************************************)
Unknown == [known |-> FALSE, layout |-> None]
Known(maybe_layout) == [known |-> TRUE, layout |-> maybe_layout]

\* The layouts a read asks for: no mapped leaf, an aggregator, and a layout
\* the stored bytes do not deserialize against.
ReadLayouts ==
    { <<Plain("U64"), Plain("U64")>>,
      <<Tagged("Aggregator", "U64"), Plain("U64")>>,
      <<Tagged("Snapshot", "U128")>> }
MaybeLayouts == {None} \cup {Some(l) : l \in ReadLayouts}

\* ValueWithLayout, and the absence of an entry.
NoEntry == [tag |-> "NoEntry"]
RawFromStorage(v) == [tag |-> "RawFromStorage", v |-> v]
Exchanged(v, maybe_layout) == [tag |-> "Exchanged", v |-> v, layout |-> maybe_layout]

\* DataRead.
NoDataRead == [kind |-> "None"]
Versioned(version, v, maybe_layout) == [kind |-> "Value", version |-> version, v |-> v, layout |-> maybe_layout]
MetadataRead(m) == [kind |-> "Metadata", m |-> m]
ExistsRead(b) == [kind |-> "Exists", b |-> b]

\* ReadKind: Exists < Metadata < Value.
ReadKindRank(k) == CASE k = "Exists" -> 1 [] k = "Metadata" -> 2 [] k = "Value" -> 3

\* TransactionWrite::as_state_value_metadata and is_deletion.
as_state_value_metadata(v) == IF v = None THEN None ELSE Some("metadata")
is_deletion(v) == v = None

\* DataRead::downcast: an optional DataRead.
downcast(read, kind) ==
    IF read.kind = kind THEN Some(read)
    ELSE IF ReadKindRank(read.kind) < ReadKindRank(kind) THEN None
    ELSE IF read.kind = "Value" /\ kind = "Metadata"
         THEN Some(MetadataRead(as_state_value_metadata(read.v)))
    ELSE IF read.kind = "Value" /\ kind = "Exists"
         THEN Some(ExistsRead(~is_deletion(read.v)))
    ELSE Some(ExistsRead(read.m # None))

\* CapturedReads::get_by_kind on the entry of the key.
get_by_kind(read, kind) ==
    IF read.kind = "None" THEN None ELSE downcast(read, kind)

\* CapturedReads::capture_read on the entry of the key: the legal merges are
\* the first capture, an identical read, and the upgrade of a weaker read
\* the stronger one is consistent with.
\* A mutant of capture_read: the captured read is replaced by any read.
capture_read_replacing(existing, flags, read) ==
    [ok |-> TRUE, read |-> read, flags |-> flags]

capture_read(existing, flags, read) ==
    IF existing.kind = "None" \/ existing = read
    THEN [ok |-> TRUE, read |-> read, flags |-> flags]
    ELSE IF /\ ReadKindRank(existing.kind) < ReadKindRank(read.kind)
            /\ downcast(read, existing.kind) = Some(existing)
    THEN [ok |-> TRUE, read |-> read, flags |-> flags]
    ELSE [ok |-> FALSE, read |-> existing,
          flags |-> [flags EXCEPT !.speculative_failure = TRUE]]

\* DataRead::from_value_with_layout: a value that was never exchanged gives
\* a read that cannot serve a Value read.
data_read_from_value_with_layout(version, value) ==
    IF value.tag = "Exchanged"
    THEN Versioned(version, value.v, value.layout)
    ELSE MetadataRead(as_state_value_metadata(value.v))

\* ReadResult, and what the facade returns for it.
NoResult == [ret |-> "none", value |-> None, layout |-> None]
ReadValue(v, maybe_layout) == [ret |-> "Value", value |-> v, layout |-> maybe_layout]
ReadMetadata(m) == [ret |-> "Metadata", value |-> m, layout |-> None]
ReadExists(b) == [ret |-> "Exists", value |-> Some(b), layout |-> None]
Uninitialized == [ret |-> "Uninitialized", value |-> None, layout |-> None]
HaltSpeculativeExecution == [ret |-> "HaltSpeculativeExecution", value |-> None, layout |-> None]
ReadError == [ret |-> "Error", value |-> None, layout |-> None]
ReadPanic == [ret |-> "Panic", value |-> None, layout |-> None]
\* assert_ok! on a capture the captured reads refuse.
AssertPanic == [ret |-> "AssertPanic", value |-> None, layout |-> None]
\* GroupReadResult::Size; GroupReadResult::Value is ReadValue, and
\* GroupReadResult::Uninitialized is Uninitialized.
GroupReadSize(n) == [ret |-> "Size", value |-> Some(n), layout |-> None]

from_data_read(data) ==
    CASE data.kind = "Value" -> ReadValue(data.v, data.layout)
      [] data.kind = "Metadata" -> ReadMetadata(data.m)
      [] data.kind = "Exists" -> ReadExists(data.b)

\* ReadResult::from_value_with_layout: an optional ReadResult.
from_value_with_layout(value, kind) ==
    IF kind = "Value"
    THEN IF value.tag = "Exchanged" THEN Some(ReadValue(value.v, value.layout)) ELSE None
    ELSE IF kind = "Metadata" THEN Some(ReadMetadata(as_state_value_metadata(value.v)))
    ELSE Some(ReadExists(~is_deletion(value.v)))

\* Lines 1352-1367: what get_resource_state_value_impl returns to the VM
\* for the result of the lookups.
vm_result(result) ==
    CASE result.ret = "HaltSpeculativeExecution" -> "SPECULATIVE_EXECUTION_ABORT_ERROR"
      [] result.ret = "Uninitialized" -> "unreachable"
      [] result.ret \in {"Error", "Panic", "AssertPanic"} -> result.ret
      [] OTHER -> "Ok"

is_delayed_field_optimization_capable == IF variant = "Sync" THEN TRUE ELSE enabled

\* The layout get_resource_state_value_impl passes inward.
gate_without_downgrade(layout) == layout

gate(layout) ==
    IF is_delayed_field_optimization_capable THEN layout
    ELSE IF layout.known THEN Known(None) ELSE Unknown

\* patch_base_value: the patched value, and the counter and the store after it.
patched_value(r) ==
    [ok |-> r.ok, v |-> IF r.ok THEN Some(r.bytes) ELSE None,
     counter |-> r.counter, store |-> r.store]

patch_base_value(value, maybe_layout, c, store) ==
    IF value # None /\ maybe_layout # None
    THEN patched_value(replace_values_with_identifiers(TheOne(value), TheOne(maybe_layout), c, store))
    ELSE [ok |-> TRUE, v |-> value, counter |-> c, store |-> store]

\* VersionedData::set_base_value of the MVMap: the first Exchanged value
\* stays; an Exchanged value replaces a RawFromStorage one.
mv_set_base_value(entry, value) ==
    IF entry.tag = "NoEntry" THEN value
    ELSE IF entry.tag = "RawFromStorage" /\ value.tag = "Exchanged" THEN value
    ELSE entry

\* UnsyncMap::set_base_value: the entry is inserted.
unsync_set_base_value(entry, value) == value

\* What storage holds for the key: nothing, a value of two leaves, or an error.
StoredBytes == simple_serialize(<<1, 0>>, <<Tagged("Aggregator", "U64"), Plain("U64")>>)
StorageOk(v) == [ok |-> TRUE, v |-> v]
StorageError == [ok |-> FALSE, v |-> None]
BaseViews == {StorageOk(None), StorageOk(Some(StoredBytes)), StorageError}

\* The tags of the group, and what storage holds for the group key: no
\* blob, a blob with one of the tags, or an error (of storage, or of the
\* decoding of the blob).
Tags == {"A", "B"}
StoredGroup == [t \in {"A"} |-> StoredBytes]
GroupBaseViews == {StorageOk(None), StorageOk(Some(StoredGroup)), StorageError}

\* The size of a group: one unit per tag and per leaf of its value.
RECURSIVE GroupSizeOf(_)
GroupSizeOf(blob) ==
    IF DOMAIN blob = {} THEN 0
    ELSE LET t == CHOOSE x \in DOMAIN blob : TRUE
         IN 1 + Len(blob[t]) + GroupSizeOf([u \in (DOMAIN blob) \ {t} |-> blob[u]])
GroupSizes == 0..MaxGroupSize

\* The group of a key in the map: NoEntry, or the entries of the tags and the size.
GroupEntry(entries, size) == [tag |-> "Group", entries |-> entries, size |-> size]

\* GroupRead of CapturedReads: the size and the reads of the tags; with
\* it, the captured read of the group key as a resource.
NoGroupRead == [size |-> None, tags |-> [t \in Tags |-> NoDataRead], key_read |-> NoDataRead]

GroupIdle(storage) ==
    /\ group_base_view = storage
    /\ mv_group = NoEntry
    /\ mv_group_meta = NoEntry
    /\ group_reads = [w \in Workers |-> NoGroupRead]
    /\ group_read_set = {}

Idle == [pc |-> "idle"]
\* The execution is over: the reads that need an exchange were asked for.
Done == [pc |-> "done"]
NoNeeds ==
    [op |-> "none", keys |-> {}, skip |-> {}, ok |-> TRUE, err |-> "none", map |-> {},
     metadata |-> "unread", size |-> "unread"]
\* No module was read either.
NoModuleRead ==
    [op |-> "none", key |-> "none", fetch |-> "none", ret |-> "none", value |-> None,
     storage_reads |-> 0]
\* The writes of the transactions below the one of the view, as the map
\* shows them for the resource key: none, a value (a deletion when None),
\* or an aggregator-v1 delta, which resolves to a number on a base value.
NoWrite == [tag |-> "NoWrite"]
ValueWrite(v, maybe_layout) == [tag |-> "Write", v |-> v, layout |-> maybe_layout]
DeltaWrite(n) == [tag |-> "Delta", resolved |-> n]
Writes ==
    {NoWrite} \cup {ValueWrite(v, None) : v \in {None, Some(StoredBytes)}}
        \cup {DeltaWrite(n) : n \in LeafValues}
NeedsIdle ==
    /\ needs_last = NoNeeds
    /\ tags_read = {}
    /\ module_reads = <<>>
    /\ module_last = NoModuleRead
    /\ mv_written = NoWrite
\* The read returned an error to the VM: the execution of the transaction ends.
Halted == [pc |-> "halted"]
AfterResult(result) ==
    IF result.ret \in {"HaltSpeculativeExecution", "Error", "Panic", "AssertPanic"}
    THEN Halted ELSE Idle
NoRes ==
    [w |-> 0, kind |-> "none", tag |-> "none", layout |-> Unknown, inward |-> Unknown,
     result |-> NoResult, queries |-> 0, base_reads |-> 0, lookups |-> 0]

ResIdle(storage) ==
    /\ base_view = storage
    /\ mv_data = NoEntry
    /\ data_reads = [w \in Workers |-> NoDataRead]
    /\ view_flags = [w \in Workers |-> NoFlags]
    /\ frame = [w \in Workers |-> Idle]
    /\ resLast = NoRes
    /\ resource_with_layout_read_set = {}

\* What MVMap.data.fetch_data answers: its entry of the key (after any
\* dependency that got resolved), a dependency on which the wait is halted,
\* or a failed delta application.
FetchAnswers == {"Entry", "DependencyHalted", "DeltaApplicationFailure"}

\* Lines 537-543: the captured read that answers the request, if any.
cached_read_ignored(read, kind) == None

cached_read(read, kind) == get_by_kind(read, kind)

FetchOut(next, result, read, flags, c, store, patched) ==
    [next |-> next, result |-> result, read |-> read, flags |-> flags,
     counter |-> c, store |-> store, patched |-> patched]

\* Lines 552-571: the value was patched (p), or could not be.
fetch_patched(p, read, flags) ==
    IF p.ok
    THEN FetchOut("install", NoResult, read, flags, p.counter, p.store, p.v)
    ELSE FetchOut("return", HaltSpeculativeExecution, read,
                  [flags EXCEPT !.incorrect_use = TRUE], p.counter, p.store, None)

\* Lines 588-600: the read was captured (cap), or is inconsistent.
fetch_captured(cap, data_read, c, store) ==
    IF cap.ok
    THEN FetchOut("return", from_data_read(data_read), cap.read, cap.flags, c, store, None)
    ELSE FetchOut("return", HaltSpeculativeExecution, cap.read, cap.flags, c, store, None)

\* Lines 575-600: the read of the fetched value, downcast to the kind asked.
fetch_downcast(data_read, read, flags, c, store) ==
    IF data_read = None
    THEN FetchOut("return", HaltSpeculativeExecution, read,
                  [flags EXCEPT !.incorrect_use = TRUE], c, store, None)
    ELSE fetch_captured(capture_read(read, flags, TheOne(data_read)), TheOne(data_read), c, store)

\* One turn of the loop of the parallel read_cached_data_by_kind (545-643)
\* on the entry the map holds: the read returns, or goes on to install the
\* patched value.
\* A mutant of uninitialized: the absence of the entry is captured.
uninitialized_capturing(read, flags, c, store) ==
    FetchOut("return", Uninitialized, ExistsRead(FALSE), flags, c, store, None)

\* Lines 621-627: the map has no base value of the key (Uninitialized, or
\* Unresolved for a delta); nothing is recorded.
uninitialized(read, flags, c, store) ==
    FetchOut("return", Uninitialized, read, flags, c, store, None)

\* A mutant of interrupted: the read goes on as if the key had no entry.
interrupted_as_uninitialized(read, flags, c, store) ==
    FetchOut("return", Uninitialized, read, flags, c, store, None)

\* Lines 628-634: wait_for_dependency returned false, the read stops.
interrupted(read, flags, c, store) ==
    FetchOut("return", HaltSpeculativeExecution, read, flags, c, store, None)

\* A mutant of delta_application_failed: the failure is marked as an
\* incorrect use.
delta_application_failed_as_incorrect_use(read, flags, c, store) ==
    FetchOut("return", HaltSpeculativeExecution, read, [flags EXCEPT !.incorrect_use = TRUE],
             c, store, None)

\* Lines 635-641: the map could not apply a delta.
delta_application_failed(read, flags, c, store) ==
    FetchOut("return", HaltSpeculativeExecution, read, mark_failure(flags), c, store, None)

parallel_fetch(entry, read, flags, kind, layout, answer, c, store) ==
    IF answer = "DependencyHalted"
    THEN interrupted(read, flags, c, store)
    ELSE IF answer = "DeltaApplicationFailure"
    THEN delta_application_failed(read, flags, c, store)
    ELSE IF entry.tag = "NoEntry"
    THEN uninitialized(read, flags, c, store)
    ELSE IF layout.known /\ entry.tag = "RawFromStorage"
    THEN fetch_patched(patch_base_value(entry.v, layout.layout, c, store), read, flags)
    ELSE fetch_downcast(downcast(data_read_from_value_with_layout("Storage", entry), kind),
                        read, flags, c, store)

\* DataRead::Resolved of an aggregator-v1 value: a value read of the
\* legacy-encoded number, with no layout.
ResolvedRead(n) == Versioned("Resolved", Some(simple_serialize(<<n>>, <<Plain("U128")>>)), None)

\* Lines 602-618: the resolved value is downcast (which cannot fail) and
\* captured.
fetch_resolved(data_read, read, flags, c, store) ==
    fetch_captured(capture_read(read, flags, data_read), data_read, c, store)

\* One turn of the loop with the write of a lower transaction visible:
\* fetch_data answers the written value with the version of its
\* transaction, Resolved for a delta on a base value and Unresolved for a
\* delta without one.
parallel_fetch_written(entry, written, read, flags, kind, layout, answer, c, store) ==
    IF written.tag = "NoWrite" \/ answer # "Entry"
    THEN parallel_fetch(entry, read, flags, kind, layout, answer, c, store)
    ELSE IF written.tag = "Write"
    THEN fetch_downcast(
             downcast(data_read_from_value_with_layout(
                          "Txn", Exchanged(written.v, written.layout)), kind),
             read, flags, c, store)
    ELSE IF entry.tag = "NoEntry"
    THEN uninitialized(read, flags, c, store)
    ELSE fetch_resolved(TheOne(downcast(ResolvedRead(written.resolved), kind)),
                        read, flags, c, store)

\* get_base_value_with_layout (1029-1043), with get_raw_base_value.
base_value_patched(p, layout, flags) ==
    [ok |-> p.ok, value |-> Exchanged(p.v, layout.layout),
     counter |-> p.counter, store |-> p.store,
     flags |-> IF p.ok THEN flags ELSE [flags EXCEPT !.incorrect_use = TRUE]]

\* A mutant of get_base_value_with_layout: an error of storage is returned
\* and not marked.
get_base_value_with_layout_unmarked(storage, layout, flags, c, store) ==
    IF ~storage.ok
    THEN [ok |-> FALSE, value |-> NoEntry, counter |-> c, store |-> store, flags |-> flags]
    ELSE IF layout.known
    THEN base_value_patched(patch_base_value(storage.v, layout.layout, c, store), layout, flags)
    ELSE [ok |-> TRUE, value |-> RawFromStorage(storage.v), counter |-> c,
          store |-> store, flags |-> flags]

get_base_value_with_layout(storage, layout, flags, c, store) ==
    IF ~storage.ok
    THEN [ok |-> FALSE, value |-> NoEntry, counter |-> c, store |-> store,
          flags |-> [flags EXCEPT !.incorrect_use = TRUE]]
    ELSE IF layout.known
    THEN base_value_patched(patch_base_value(storage.v, layout.layout, c, store), layout, flags)
    ELSE [ok |-> TRUE, value |-> RawFromStorage(storage.v), counter |-> c,
          store |-> store, flags |-> flags]

\* The reads of TResourceView: get_resource_state_value with any layout,
\* get_resource_state_value_metadata and resource_exists (1407-1443).
ReadRequests ==
    {[kind |-> "Value", layout |-> Known(l)] : l \in MaybeLayouts}
        \cup {[kind |-> "Metadata", layout |-> Unknown], [kind |-> "Exists", layout |-> Unknown]}

Turn(f, read, flags, c, store, result, queries, base_reads) ==
    [frame |-> f, read |-> read, flags |-> flags, counter |-> c, store |-> store,
     result |-> result, queries |-> queries, base_reads |-> base_reads]

InFlight(pc, kind, layout, value, second, queries, base_reads) ==
    [pc |-> pc, kind |-> kind, layout |-> layout, value |-> value, second |-> second,
     queries |-> queries, base_reads |-> base_reads]

\* The read that returned: the worker, the kind and the layout it asked for,
\* the layout passed inward, the result, and how often the call fetched the
\* map and read storage.
ReturnedOf(w, kind, tag, layout_in, inward, result, queries, base_reads, lookups) ==
    [w |-> w, kind |-> kind, tag |-> tag, layout |-> layout_in, inward |-> inward,
     result |-> result, queries |-> queries, base_reads |-> base_reads,
     lookups |-> lookups]

Returned(w, kind, layout_in, inward, result, queries, base_reads, lookups) ==
    ReturnedOf(w, kind, "none", layout_in, inward, result, queries, base_reads, lookups)

\* How many cached lookups a call that returns has made.
Lookups(second) == IF second THEN 2 ELSE 1

\* Lines 1338-1339: the base value was read from storage (g), or could not be.
turn_from_storage(g, f, kind, layout, q, b) ==
    IF g.ok
    THEN Turn(InFlight("set_base", kind, layout, g.value, TRUE, q, b + 1),
              f.read, g.flags, g.counter, g.store, NoResult, q, b + 1)
    ELSE Turn(Halted, f.read, g.flags, g.counter, g.store, ReadError, q, b + 1)

\* What follows the fetch f of the map.
turn_after_fetch(f, storage, kind, layout, second, q, b) ==
    IF f.next = "install"
    THEN Turn(InFlight("install", kind, layout, Exchanged(f.patched, layout.layout), second, q, b),
              f.read, f.flags, f.counter, f.store, NoResult, q, b)
    ELSE IF f.result.ret # "Uninitialized"
    THEN Turn(AfterResult(f.result), f.read, f.flags, f.counter, f.store, f.result, q, b)
    ELSE IF second
    THEN Turn(Halted, f.read, f.flags, f.counter, f.store, ReadPanic, q, b)
    ELSE turn_from_storage(get_base_value_with_layout(storage, layout, f.flags, f.counter, f.store),
                           f, kind, layout, q, b)

\* get_resource_state_value_impl (1328-1367) of a worker of the parallel
\* variant, from one fetch of the map to the next access of the map: the
\* read returns, or stands before set_base_value with the value to install.
\* q counts the fetches of the map and b the reads of storage of the call.
parallel_turn(entry, written, storage, read, flags, kind, layout, second, q, b, answer, c, store) ==
    turn_after_fetch(parallel_fetch_written(entry, written, read, flags, kind, layout,
                                            answer, c, store),
                     storage, kind, layout, second, q, b)

\* Lines 562-563: after set_base_value the loop fetches the map again, and
\* goes on with the entry the map holds, not with the value it installed.
refetch_skipped(installed, own) == own

refetch(installed, own) == installed

\* The state after a turn of worker w that left the entry of the map as
\* entry and fetched it as fetched.
ParallelStepWith(w, entry, fetched, kind, layout_in, layout, second, q, b, answer) ==
        \E t \in {parallel_turn(fetched, mv_written, base_view, data_reads[w], view_flags[w], kind, layout,
                                 second, q + 1, b, answer, counter, delayed_fields)} :
           /\ t.counter <= start_counter + MaxCalls
           /\ mv_data' = entry
           /\ frame' = [frame EXCEPT ![w] = IF t.frame.pc \in {"idle", "halted"} THEN t.frame
                                           ELSE t.frame @@ [asked |-> layout_in]]
           /\ data_reads' = [data_reads EXCEPT ![w] = t.read]
           /\ view_flags' = [view_flags EXCEPT ![w] = t.flags]
           /\ counter' = t.counter
           /\ delayed_fields' = t.store
           /\ resLast' = IF t.frame.pc \in {"idle", "halted"}
                         THEN Returned(w, kind, layout_in, layout, t.result, t.queries, t.base_reads,
                                       Lookups(second))
                         ELSE resLast

ParallelStep(w, entry, fetched, kind, layout_in, layout, second, q, b) ==
    \E answer \in FetchAnswers :
        ParallelStepWith(w, entry, fetched, kind, layout_in, layout, second, q, b, answer)

\* What no read of a resource or of a group changes.
ViewFrame ==
    /\ UNCHANGED <<variant, enabled, start_counter, generated, idLast>>
    /\ UNCHANGED <<xPatch, xRestore, base_view, group_base_view>>
    /\ UNCHANGED <<dfVars, depVars, writeVars>>

ResFrame ==
    /\ ViewFrame
    /\ UNCHANGED <<mv_group, mv_group_meta, group_reads>>
    /\ UNCHANGED <<needsVars, modVars>>

\* A worker of the parallel variant calls a read of TResourceView: the
\* captured read answers it, or the map is fetched.
ResourceRead(w) ==
    /\ variant = "Sync"
    /\ frame[w].pc = "idle"
    /\ \E req \in ReadRequests :
          LET layout == gate(req.layout)
              cached == cached_read(data_reads[w], req.kind)
          IN IF cached # None
             THEN /\ resLast' = Returned(w, req.kind, req.layout, layout,
                                         from_data_read(TheOne(cached)), 0, 0, 1)
                  /\ UNCHANGED <<mv_data, data_reads, view_flags, frame, counter, delayed_fields>>
             ELSE ParallelStep(w, mv_data, mv_data, req.kind, req.layout, layout, FALSE, 0, 0)
    /\ UNCHANGED <<resource_with_layout_read_set, group_read_set>>
    /\ ResFrame

\* The worker installs the value it patched (554-562) and fetches again.
InstallPatched(w) ==
    /\ frame[w].pc = "install"
    /\ \E installed \in {mv_set_base_value(mv_data, frame[w].value)} :
          ParallelStep(w, installed, refetch(installed, frame[w].value), frame[w].kind,
                       frame[w].asked, frame[w].layout, frame[w].second, frame[w].queries,
                       frame[w].base_reads)
    /\ UNCHANGED <<resource_with_layout_read_set, group_read_set>>
    /\ ResFrame

\* The worker installs the base value it read from storage (1339) and does
\* the second lookup (1343-1349).
SetBaseValue(w) ==
    /\ frame[w].pc = "set_base"
    /\ LET cached == cached_read(data_reads[w], frame[w].kind)
           entry == mv_set_base_value(mv_data, frame[w].value)
       IN IF cached # None
          THEN /\ mv_data' = entry
               /\ frame' = [frame EXCEPT ![w] = Idle]
               /\ resLast' = Returned(w, frame[w].kind, frame[w].asked, frame[w].layout,
                                      from_data_read(TheOne(cached)),
                                      frame[w].queries, frame[w].base_reads, 2)
               /\ UNCHANGED <<data_reads, view_flags, counter, delayed_fields>>
          ELSE ParallelStep(w, entry, entry, frame[w].kind, frame[w].asked, frame[w].layout, TRUE,
                            frame[w].queries, frame[w].base_reads)
    /\ UNCHANGED <<resource_with_layout_read_set, group_read_set>>
    /\ ResFrame

SeqOut(result, entry, c, store, flags, read_set, queries) ==
    [result |-> result, entry |-> entry, counter |-> c, store |-> store, flags |-> flags,
     read_set |-> read_set, queries |-> queries]

\* Lines 800-843: the entry was patched if it had to be (p).
\* Lines 823-830: the key joins resource_with_layout_read_set.
record_read_with_layout_of_any_value(ret, kind, read_set) ==
    IF kind = "Value" /\ ret.ret = "Value" THEN read_set \cup {"key"} ELSE read_set

record_read_with_layout(ret, kind, read_set) ==
    IF kind = "Value" /\ ret.ret = "Value" /\ ret.value # None /\ ret.layout # None
    THEN read_set \cup {"key"} ELSE read_set

sequential_after_patch(p, patch, entry, kind, layout, flags, read_set, q) ==
    LET value == IF patch THEN Exchanged(p.v, layout.layout) ELSE entry
        ret == from_value_with_layout(value, kind)
    IN IF ~p.ok
       THEN SeqOut(HaltSpeculativeExecution, entry, p.counter, p.store,
                   [flags EXCEPT !.incorrect_use = TRUE], read_set, q + 1)
       ELSE IF ret = None
       THEN SeqOut(HaltSpeculativeExecution,
                   IF patch THEN unsync_set_base_value(entry, value) ELSE entry,
                   p.counter, p.store,
                   [flags EXCEPT !.incorrect_use = TRUE], read_set, q + 1)
       ELSE SeqOut(TheOne(ret),
                   IF patch THEN unsync_set_base_value(entry, value) ELSE entry,
                   p.counter, p.store, flags,
                   record_read_with_layout(TheOne(ret), kind, read_set),
                   q + 1)

\* read_cached_data_by_kind of the sequential variant (787-847).
sequential_read_cached_data_by_kind_repatching(entry, kind, layout, c, store, flags, read_set, q) ==
    IF entry.tag = "NoEntry"
    THEN SeqOut(Uninitialized, entry, c, store, flags, read_set, q + 1)
    ELSE IF layout.known
    THEN sequential_after_patch(patch_base_value(entry.v, layout.layout, c, store), TRUE,
                                entry, kind, layout, flags, read_set, q)
    ELSE sequential_after_patch([ok |-> TRUE, v |-> entry.v, counter |-> c, store |-> store],
                                FALSE, entry, kind, layout, flags, read_set, q)

sequential_read_cached_data_by_kind(entry, kind, layout, c, store, flags, read_set, q) ==
    IF entry.tag = "NoEntry"
    THEN SeqOut(Uninitialized, entry, c, store, flags, read_set, q + 1)
    ELSE IF layout.known /\ entry.tag = "RawFromStorage"
    THEN sequential_after_patch(patch_base_value(entry.v, layout.layout, c, store), TRUE,
                                entry, kind, layout, flags, read_set, q)
    ELSE sequential_after_patch([ok |-> TRUE, v |-> entry.v, counter |-> c, store |-> store],
                                FALSE, entry, kind, layout, flags, read_set, q)

WithBaseReads(r, b, l) ==
    [result |-> IF r.result.ret = "Uninitialized" THEN ReadPanic ELSE r.result,
     entry |-> r.entry, counter |-> r.counter, store |-> r.store, flags |-> r.flags,
     read_set |-> r.read_set, queries |-> r.queries, base_reads |-> b, lookups |-> l]

\* Lines 1338-1349: the base value was read from storage (g), or could not be.
sequential_from_storage_without_install(g, r1, kind, layout) ==
    IF ~g.ok
    THEN WithBaseReads(SeqOut(ReadError, r1.entry, g.counter, g.store, g.flags, r1.read_set, 1),
                       1, 1)
    ELSE WithBaseReads(sequential_read_cached_data_by_kind(
                           r1.entry, kind, layout,
                           g.counter, g.store, g.flags, r1.read_set, 1), 1, 2)

sequential_from_storage(g, r1, kind, layout) ==
    IF ~g.ok
    THEN WithBaseReads(SeqOut(ReadError, r1.entry, g.counter, g.store, g.flags, r1.read_set, 1),
                       1, 1)
    ELSE WithBaseReads(sequential_read_cached_data_by_kind(
                           unsync_set_base_value(r1.entry, g.value), kind, layout,
                           g.counter, g.store, g.flags, r1.read_set, 1), 1, 2)

\* What follows the first lookup r1.
sequential_after_first(r1, storage, kind, layout) ==
    IF r1.result.ret # "Uninitialized"
    THEN WithBaseReads(r1, 0, 1)
    ELSE sequential_from_storage(
             get_base_value_with_layout(storage, layout, r1.flags, r1.counter, r1.store),
             r1, kind, layout)

\* get_resource_state_value_impl (1307-1368) of the sequential variant.
sequential_get_resource_state_value_impl(entry, storage, kind, layout_in, c, store, flags, read_set) ==
    sequential_after_first(
        sequential_read_cached_data_by_kind(entry, kind, gate(layout_in), c, store, flags, read_set, 0),
        storage, kind, gate(layout_in))

\* The thread of the sequential variant calls a read of TResourceView.
SequentialResourceRead ==
    /\ variant = "Unsync"
    /\ frame[1].pc = "idle"
    /\ \E req \in ReadRequests :
          \E r \in {sequential_get_resource_state_value_impl(
                       mv_data, base_view, req.kind, req.layout, counter, delayed_fields,
                       view_flags[1], resource_with_layout_read_set)} :
             /\ r.counter <= start_counter + MaxCalls
             /\ mv_data' = r.entry
             /\ counter' = r.counter
             /\ delayed_fields' = r.store
             /\ view_flags' = [view_flags EXCEPT ![1] = r.flags]
             /\ resource_with_layout_read_set' = r.read_set
             /\ resLast' = Returned(1, req.kind, req.layout, gate(req.layout), r.result,
                                     r.queries, r.base_reads, r.lookups)
             /\ frame' = [frame EXCEPT ![1] = AfterResult(r.result)]
    /\ UNCHANGED <<data_reads, group_read_set>>
    /\ ResFrame


(***************************************************************************)
(* Resource groups.  One group key is modelled.                            *)
(***************************************************************************)
\* The layout get_resource_from_group passes inward (1477).
group_gate(maybe_layout) ==
    IF is_delayed_field_optimization_capable THEN maybe_layout ELSE None

\* The blob of the group in storage, decoded (1371-1379).
base_group(storage) == IF storage.v = None THEN << >> ELSE TheOne(storage.v)

\* VersionedGroupData::set_raw_base_values: the group is initialised with
\* the raw values of storage unless it already is.
mv_set_raw_base_values(group, blob) ==
    IF group.tag = "NoEntry"
    THEN GroupEntry([t \in DOMAIN blob |-> RawFromStorage(Some(blob[t]))], GroupSizeOf(blob))
    ELSE group

\* UnsyncMap::set_group_base_values: the group is inserted.
unsync_set_group_base_values(group, blob) ==
    GroupEntry([t \in DOMAIN blob |-> RawFromStorage(Some(blob[t]))], GroupSizeOf(blob))

\* VersionedGroupData::update_tagged_base_value_with_layout: the raw base
\* value of the tag becomes the exchanged one; an exchanged one stays.
mv_update_tagged_base_value_with_layout(group, tag, value, maybe_layout) ==
    IF group.entries[tag].tag = "RawFromStorage"
    THEN [group EXCEPT !.entries[tag] = Exchanged(value, maybe_layout)]
    ELSE group

\* UnsyncMap::update_tagged_base_value_with_layout: the value is inserted.
unsync_update_tagged_base_value_with_layout(group, tag, value, maybe_layout) ==
    [group EXCEPT !.entries[tag] = Exchanged(value, maybe_layout)]

\* CapturedReads::capture_group_size: the first size is recorded, the
\* same size again changes nothing, another size is refused.
capture_group_size(existing, size) ==
    IF existing = None \/ existing = Some(size)
    THEN [ok |-> TRUE, size |-> Some(size)]
    ELSE [ok |-> FALSE, size |-> existing]

\* What VersionedGroupData::get_group_size and fetch_tagged_data answer
\* next to the contents of the group: a dependency on which the wait is
\* halted, or (for the size) a tag that does not serialize.
GroupFetchAnswers(kind) ==
    IF kind = "GroupSize"
    THEN {"Entry", "DependencyHalted", "TagSerializationError"}
    ELSE {"Entry", "DependencyHalted"}

\* Line 480: the captured size that answers the call, if any.
cached_group_size_ignored(gread) == None

cached_group_size(gread) == gread.size

\* Lines 664-670: the captured read of the tag that answers the call, if any.
cached_tagged_read(gread, tag) == get_by_kind(gread.tags[tag], "Value")

\* Lines 490-499: the size was captured (cap), or the capture was refused.
size_captured(cap, gread, flags, size, c, store) ==
    IF cap.ok
    THEN FetchOut("return", GroupReadSize(size), [gread EXCEPT !.size = cap.size],
                  flags, c, store, None)
    ELSE FetchOut("return", AssertPanic, gread, flags, c, store, None)

\* One turn of the loop of read_group_size (484-515).
size_fetch(group, gread, flags, answer, c, store) ==
    IF answer \in {"DependencyHalted", "TagSerializationError"}
    THEN FetchOut("return", ReadError, gread, flags, c, store, None)
    ELSE IF group.tag = "NoEntry"
    THEN FetchOut("return", Uninitialized, gread, flags, c, store, None)
    ELSE size_captured(capture_group_size(gread.size, group.size), gread, flags,
                       group.size, c, store)

\* Lines 695-708 and 716-730: the read of the tag was captured (cap), or
\* the capture was refused.
tagged_captured(cap, gread, tag, result, c, store) ==
    IF cap.ok
    THEN FetchOut("return", result, [gread EXCEPT !.tags[tag] = cap.read], cap.flags,
                  c, store, None)
    ELSE FetchOut("return", AssertPanic, gread, cap.flags, c, store, None)

\* Lines 682-692: the raw value was patched (p), or could not be.
tagged_patched(p, gread, flags) ==
    IF p.ok
    THEN FetchOut("install", NoResult, gread, flags, p.counter, p.store, p.v)
    ELSE FetchOut("return", ReadError, gread,
                  [flags EXCEPT !.incorrect_use = TRUE], p.counter, p.store, None)

\* A mutant of tag_not_found: the absence of the tag is not captured.
tag_not_found_uncaptured(tag, gread, flags, c, store) ==
    FetchOut("return", ReadValue(None, None), gread, flags, c, store, None)

\* Lines 710-731: the group has no such tag; the read of a deletion at the
\* storage version is captured for the tag.
tag_not_found(tag, gread, flags, c, store) ==
    tagged_captured(capture_read(gread.tags[tag], flags, Versioned("Storage", None, None)),
                    gread, tag, ReadValue(None, None), c, store)

\* One turn of the loop of the parallel read_cached_group_tagged_data (672-741).
tagged_fetch(group, tag, gread, flags, maybe_layout, answer, c, store) ==
    IF answer = "DependencyHalted"
    THEN FetchOut("return", ReadError, gread, flags, c, store, None)
    ELSE IF group.tag = "NoEntry"
    THEN FetchOut("return", Uninitialized, gread, flags, c, store, None)
    ELSE IF tag \notin DOMAIN group.entries
    THEN tag_not_found(tag, gread, flags, c, store)
    ELSE IF group.entries[tag].tag = "RawFromStorage"
    THEN tagged_patched(patch_base_value(group.entries[tag].v, maybe_layout, c, store),
                        gread, flags)
    ELSE tagged_captured(capture_read(gread.tags[tag], flags,
                                      Versioned("Storage", group.entries[tag].v,
                                                group.entries[tag].layout)),
                         gread, tag,
                         ReadValue(group.entries[tag].v, group.entries[tag].layout), c, store)

\* The layout a call on the group passes inward: none for the size.
GroupInward(kind, maybe_layout) ==
    IF kind = "GroupSize" THEN Unknown ELSE Known(maybe_layout)

GroupInFlight(pc, kind, tag, maybe_layout, value, second, queries, base_reads) ==
    [pc |-> pc, kind |-> kind, tag |-> tag, layout |-> maybe_layout, value |-> value,
     second |-> second, queries |-> queries, base_reads |-> base_reads]

\* What follows the fetch f of the group: the call returns, installs the
\* patched value of the tag, or initialises the group from storage
\* (1459-1460, 1490-1491, 1372).
group_turn_after_fetch(f, storage, kind, tag, maybe_layout, second, q, b) ==
    IF f.next = "install"
    THEN Turn(GroupInFlight("g_install", kind, tag, maybe_layout, f.patched, second, q, b),
              f.read, f.flags, f.counter, f.store, NoResult, q, b)
    ELSE IF f.result.ret # "Uninitialized"
    THEN Turn(AfterResult(f.result), f.read, f.flags, f.counter, f.store, f.result, q, b)
    ELSE IF second
    THEN Turn(Halted, f.read, f.flags, f.counter, f.store, ReadPanic, q, b)
    ELSE IF ~storage.ok
    THEN Turn(Halted, f.read, [f.flags EXCEPT !.incorrect_use = TRUE], f.counter, f.store,
              ReadError, q, b + 1)
    ELSE Turn(GroupInFlight("g_init", kind, tag, maybe_layout, None, TRUE, q, b + 1),
              f.read, f.flags, f.counter, f.store, NoResult, q, b + 1)

\* resource_group_size (1453-1469) and get_resource_from_group (1471-1506)
\* of a worker of the parallel variant, from one fetch of the group to the
\* next access of the map.
group_turn(group, storage, gread, flags, kind, tag, maybe_layout, second, q, b, answer, c, store) ==
    group_turn_after_fetch(
        IF kind = "GroupSize"
        THEN size_fetch(group, gread, flags, answer, c, store)
        ELSE tagged_fetch(group, tag, gread, flags, maybe_layout, answer, c, store),
        storage, kind, tag, maybe_layout, second, q, b)

\* The state after a turn of worker w that left the group as group and the
\* entry of the group key as meta.
GroupStepWith(w, group, meta, kind, tag, layout_in, maybe_layout, second, q, b, answer) ==
        \E t \in {group_turn(group, group_base_view, group_reads[w], view_flags[w], kind, tag,
                             maybe_layout, second, q + 1, b, answer, counter, delayed_fields)} :
           /\ t.counter <= start_counter + MaxCalls
           /\ mv_group' = group
           /\ mv_group_meta' = meta
           /\ frame' = [frame EXCEPT ![w] = IF t.frame.pc \in {"idle", "halted"} THEN t.frame
                                           ELSE t.frame @@ [asked |-> layout_in]]
           /\ group_reads' = [group_reads EXCEPT ![w] = t.read]
           /\ view_flags' = [view_flags EXCEPT ![w] = t.flags]
           /\ counter' = t.counter
           /\ delayed_fields' = t.store
           /\ resLast' = IF t.frame.pc \in {"idle", "halted"}
                         THEN ReturnedOf(w, kind, tag, layout_in, GroupInward(kind, maybe_layout),
                                         t.result, t.queries, t.base_reads, Lookups(second))
                         ELSE resLast

GroupStep(w, group, meta, kind, tag, layout_in, maybe_layout, second, q, b) ==
    \E answer \in GroupFetchAnswers(kind) :
        GroupStepWith(w, group, meta, kind, tag, layout_in, maybe_layout, second, q, b, answer)

\* The call of a worker of the parallel variant (first or second lookup):
\* what the worker captured answers it, or the group is fetched.
GroupLookup(w, group, meta, kind, tag, layout_in, maybe_layout, second, q, b) ==
    LET size == cached_group_size(group_reads[w])
        cached == cached_tagged_read(group_reads[w], tag)
    IN IF kind = "GroupSize" /\ size # None
       THEN /\ resLast' = ReturnedOf(w, kind, tag, layout_in, GroupInward(kind, maybe_layout),
                                     GroupReadSize(TheOne(size)), q, b, Lookups(second))
            /\ mv_group' = group
            /\ mv_group_meta' = meta
            /\ frame' = [frame EXCEPT ![w] = Idle]
            /\ UNCHANGED <<group_reads, view_flags, counter, delayed_fields>>
       ELSE IF kind = "GroupValue" /\ cached # None
       THEN /\ resLast' = ReturnedOf(w, kind, tag, layout_in, GroupInward(kind, maybe_layout),
                                     ReadValue(TheOne(cached).v, TheOne(cached).layout), q, b,
                                     Lookups(second))
            /\ mv_group' = group
            /\ mv_group_meta' = meta
            /\ frame' = [frame EXCEPT ![w] = Idle]
            /\ UNCHANGED <<group_reads, view_flags, counter, delayed_fields>>
       ELSE GroupStep(w, group, meta, kind, tag, layout_in, maybe_layout, second, q, b)

GroupFrame ==
    /\ ViewFrame
    /\ UNCHANGED <<mv_data, data_reads, resource_with_layout_read_set>>
    /\ UNCHANGED <<needsVars, modVars>>

\* A worker of the parallel variant calls resource_group_size.
ResourceGroupSize(w) ==
    /\ variant = "Sync"
    /\ frame[w].pc = "idle"
    /\ GroupLookup(w, mv_group, mv_group_meta, "GroupSize", "none", Unknown, None, FALSE, 0, 0)
    /\ UNCHANGED group_read_set
    /\ GroupFrame

\* A worker of the parallel variant calls get_resource_from_group.
GetResourceFromGroup(w) ==
    /\ variant = "Sync"
    /\ frame[w].pc = "idle"
    /\ \E tag \in Tags, maybe_layout \in MaybeLayouts :
          GroupLookup(w, mv_group, mv_group_meta, "GroupValue", tag, Known(maybe_layout),
                      group_gate(maybe_layout), FALSE, 0, 0)
    /\ UNCHANGED group_read_set
    /\ GroupFrame

\* The worker installs the value of the tag it patched (683-690) and
\* fetches again.
UpdateTaggedBaseValue(w) ==
    /\ frame[w].pc = "g_install"
    /\ GroupStep(w, mv_update_tagged_base_value_with_layout(
                        mv_group, frame[w].tag, frame[w].value, frame[w].layout),
                 mv_group_meta, frame[w].kind, frame[w].tag, frame[w].asked, frame[w].layout,
                 frame[w].second, frame[w].queries, frame[w].base_reads)
    /\ UNCHANGED group_read_set
    /\ GroupFrame

\* The worker installs the base contents of the group it read from storage
\* (1390-1396) and does the second lookup.
InitializeGroup(w) ==
    /\ frame[w].pc = "g_init"
    /\ GroupLookup(w, mv_set_raw_base_values(mv_group, base_group(group_base_view)),
                   mv_set_base_value(mv_group_meta, RawFromStorage(group_base_view.v)),
                   frame[w].kind, frame[w].tag, frame[w].asked, frame[w].layout, TRUE,
                   frame[w].queries, frame[w].base_reads)
    /\ UNCHANGED group_read_set
    /\ GroupFrame

\* A transaction below the workers' ones writes to the group: the size the
\* map answers changes.
OtherTxnGroupWrite ==
    /\ variant = "Sync"
    /\ mv_group.tag = "Group"
    /\ \E size \in GroupSizes \ {mv_group.size} : mv_group' = [mv_group EXCEPT !.size = size]
    /\ UNCHANGED <<mv_group_meta, group_reads, group_read_set>>
    /\ UNCHANGED <<frame, view_flags, counter, delayed_fields, resLast>>
    /\ GroupFrame

GroupOut(result, group, meta, c, store, flags, read_set, queries, base_reads) ==
    [result |-> result, group |-> group, meta |-> meta, counter |-> c, store |-> store,
     flags |-> flags, read_set |-> read_set, queries |-> queries, base_reads |-> base_reads]

\* Lines 884-889: the value of the tag is exchanged (p is its patch, if it
\* was raw).
sequential_tagged_after_patch(p, group, meta, value, flags, read_set, q, b) ==
    IF ~p.ok
    THEN GroupOut(ReadError, group, meta, p.counter, p.store,
                  [flags EXCEPT !.incorrect_use = TRUE], read_set, q + 1, b)
    ELSE GroupOut(ReadValue(value.v, value.layout), group, meta, p.counter, p.store, flags,
                  IF value.v # None /\ value.layout # None
                  THEN read_set \cup {"group"} ELSE read_set,
                  q + 1, b)

\* Lines 871-881: the raw value of the tag was patched (p), or could not be.
sequential_tagged_patched(p, group, meta, tag, maybe_layout, flags, read_set, q, b) ==
    sequential_tagged_after_patch(
        p,
        IF p.ok
        THEN unsync_update_tagged_base_value_with_layout(group, tag, p.v, maybe_layout)
        ELSE group,
        meta, Exchanged(p.v, maybe_layout), flags, read_set, q, b)

\* read_cached_group_tagged_data of the sequential variant (856-901).
sequential_read_cached_group_tagged_data(group, meta, tag, maybe_layout, c, store, flags, read_set, q, b) ==
    IF group.tag = "NoEntry"
    THEN GroupOut(Uninitialized, group, meta, c, store, flags, read_set, q + 1, b)
    ELSE IF tag \notin DOMAIN group.entries
    THEN GroupOut(ReadValue(None, None), group, meta, c, store, flags, read_set, q + 1, b)
    ELSE IF group.entries[tag].tag = "RawFromStorage"
    THEN sequential_tagged_patched(patch_base_value(group.entries[tag].v, maybe_layout, c, store),
                                   group, meta, tag, maybe_layout, flags, read_set, q, b)
    ELSE sequential_tagged_after_patch(
             [ok |-> TRUE, v |-> None, counter |-> c, store |-> store],
             group, meta, group.entries[tag], flags, read_set, q, b)

\* UnsyncMap::get_group_size.
unsync_get_group_size(group, meta, c, store, flags, read_set, q, b) ==
    IF group.tag = "NoEntry"
    THEN GroupOut(Uninitialized, group, meta, c, store, flags, read_set, q + 1, b)
    ELSE GroupOut(GroupReadSize(group.size), group, meta, c, store, flags, read_set, q + 1, b)

sequential_group_lookup(kind, group, meta, tag, maybe_layout, c, store, flags, read_set, q, b) ==
    IF kind = "GroupSize"
    THEN unsync_get_group_size(group, meta, c, store, flags, read_set, q, b)
    ELSE sequential_read_cached_group_tagged_data(group, meta, tag, maybe_layout, c, store,
                                                  flags, read_set, q, b)

\* into_size and into_value of the result of the second lookup.
into_result(r) ==
    IF r.result.ret = "Uninitialized" THEN [r EXCEPT !.result = ReadPanic] ELSE r

\* What follows the first lookup r1 (1459-1466, 1490-1503).
sequential_group_after_first(r1, storage, kind, tag, maybe_layout) ==
    IF r1.result.ret # "Uninitialized"
    THEN r1 @@ [lookups |-> 1]
    ELSE IF ~storage.ok
    THEN GroupOut(ReadError, r1.group, r1.meta, r1.counter, r1.store,
                  [r1.flags EXCEPT !.incorrect_use = TRUE], r1.read_set, r1.queries, 1)
             @@ [lookups |-> 1]
    ELSE into_result(sequential_group_lookup(
                         kind, unsync_set_group_base_values(r1.group, base_group(storage)),
                         unsync_set_base_value(r1.meta, RawFromStorage(storage.v)),
                         tag, maybe_layout, r1.counter, r1.store, r1.flags, r1.read_set,
                         r1.queries, 1))
             @@ [lookups |-> 2]

\* resource_group_size (1453-1469) and get_resource_from_group (1471-1506)
\* of the sequential variant.
sequential_group_call(kind, group, meta, storage, tag, maybe_layout, c, store, flags, read_set) ==
    sequential_group_after_first(
        sequential_group_lookup(kind, group, meta, tag, maybe_layout, c, store, flags,
                                read_set, 0, 0),
        storage, kind, tag, maybe_layout)

SequentialGroupStep(kind, tag, layout_in, maybe_layout) ==
    \E r \in {sequential_group_call(kind, mv_group, mv_group_meta, group_base_view, tag,
                                    maybe_layout, counter, delayed_fields, view_flags[1],
                                    group_read_set)} :
       /\ r.counter <= start_counter + MaxCalls
       /\ mv_group' = r.group
       /\ mv_group_meta' = r.meta
       /\ counter' = r.counter
       /\ delayed_fields' = r.store
       /\ view_flags' = [view_flags EXCEPT ![1] = r.flags]
       /\ group_read_set' = r.read_set
       /\ resLast' = ReturnedOf(1, kind, tag, layout_in, GroupInward(kind, maybe_layout),
                                r.result, r.queries, r.base_reads, r.lookups)
       /\ frame' = [frame EXCEPT ![1] = AfterResult(r.result)]

\* The thread of the sequential variant calls resource_group_size.
SequentialResourceGroupSize ==
    /\ variant = "Unsync"
    /\ frame[1].pc = "idle"
    /\ SequentialGroupStep("GroupSize", "none", Unknown, None)
    /\ UNCHANGED group_reads
    /\ GroupFrame

\* The thread of the sequential variant calls get_resource_from_group.
SequentialGetResourceFromGroup ==
    /\ variant = "Unsync"
    /\ frame[1].pc = "idle"
    /\ \E tag \in Tags, maybe_layout \in MaybeLayouts :
          SequentialGroupStep("GroupValue", tag, Known(maybe_layout), group_gate(maybe_layout))
    /\ UNCHANGED group_reads
    /\ GroupFrame

\* The worker starts the execution of a transaction on a new view: a new
\* ParallelState or SequentialState on the same map and counter.
NewAttempt(w) ==
    /\ w \in ActiveWorkers
    /\ frame[w].pc \in {"idle", "halted", "done"}
    /\ frame[w].pc = "idle" =>
          \/ data_reads[w] # NoDataRead
          \/ group_reads[w] # NoGroupRead
          \/ resource_with_layout_read_set # {}
          \/ group_read_set # {}
    /\ frame' = [frame EXCEPT ![w] = Idle]
    /\ data_reads' = [data_reads EXCEPT ![w] = NoDataRead]
    /\ group_reads' = [group_reads EXCEPT ![w] = NoGroupRead]
    /\ view_flags' = [view_flags EXCEPT ![w] = NoFlags]
    /\ resource_with_layout_read_set' = {}
    /\ group_read_set' = {}
    /\ needs_last' = NoNeeds
    /\ tags_read' = {}
    /\ module_reads' = IF w = 1 THEN <<>> ELSE module_reads
    /\ UNCHANGED module_last
    /\ UNCHANGED <<mv_data, resLast, counter, delayed_fields>>
    /\ UNCHANGED <<mv_group, mv_group_meta>>
    /\ ViewFrame


(***************************************************************************)
(* The reads that need an exchange (1101-1305, 1718-1765): the reads of    *)
(* the attempt whose values hold identifiers of the delayed fields the     *)
(* transaction wrote.  The result of a call is ok with the entries of the  *)
(* map it returns (the key and what it is mapped to), or the error.        *)
(***************************************************************************)
\* The sets of identifiers of delayed_write_set_keys a call is given.
DelayedWriteSets ==
    {{}, 0..(MaxCalls - 1)} \cup {{i} : i \in 0..(MaxCalls - 1)}

\* extract_identifiers_from_value (1101-1114): the values of the mapped
\* leaves of bytes in which identifiers stand, if the bytes deserialize.
extract_identifiers_from_value(bytes, layout) ==
    IF Len(bytes) = Len(layout) /\ \A i \in 1..Len(layout) : LeafDeserializes(bytes, layout, i)
    THEN [ok |-> TRUE, ids |-> {bytes[i].v : i \in MappedLeaves(layout)}]
    ELSE [ok |-> FALSE, ids |-> {}]

\* Line 1129: the identifiers of the read meet delayed_write_set_keys.
meets_delayed_write_set_always(identifiers_in_read, delayed_write_set_keys) == TRUE

meets_delayed_write_set(identifiers_in_read, delayed_write_set_keys) ==
    identifiers_in_read \cap delayed_write_set_keys # {}

\* What the flat_map of a call yields for a key: nothing, an entry of the
\* map, or an error.
Yield(key, kind, entry) == [key |-> key, kind |-> kind, entry |-> entry]

\* does_value_need_exchange (1116-1138).
does_value_need_exchange_on(x, value, layout, delayed_write_set_keys, key) ==
    IF ~x.ok THEN Yield(key, "Err", [value |-> value, layout |-> Some(layout)])
    ELSE IF meets_delayed_write_set(x.ids, delayed_write_set_keys)
    THEN Yield(key, "Ok", [value |-> value, layout |-> Some(layout)])
    ELSE Yield(key, "None", [value |-> value, layout |-> Some(layout)])

does_value_need_exchange(value, layout, delayed_write_set_keys, key) ==
    IF value = None
    THEN Yield(key, "None", [value |-> value, layout |-> Some(layout)])
    ELSE does_value_need_exchange_on(extract_identifiers_from_value(TheOne(value), layout),
                                     value, layout, delayed_write_set_keys, key)

\* collect() into Result<BTreeMap>: the first error, or the map of the entries.
collect(yields) ==
    IF \E y \in yields : y.kind = "Err"
    THEN [ok |-> FALSE, map |-> {}]
    ELSE [ok |-> TRUE, map |-> {[key |-> y.key, entry |-> y.entry] : y \in {z \in yields : z.kind = "Ok"}}]

\* The error of a call that returns one.
code_invariant_error(ok) == IF ok THEN "none" ELSE "CodeInvariantError"

\* get_reads_needing_exchange_parallel (1140-1161) on the captured read of the key.
get_reads_needing_exchange_parallel(read, delayed_write_set_keys, skip) ==
    collect(IF "key" \in skip \/ read.kind # "Value" \/ read.layout = None
            THEN {}
            ELSE {does_value_need_exchange(read.v, TheOne(read.layout),
                                           delayed_write_set_keys, "key")})

\* get_reads_needing_exchange_sequential (1163-1183) on the read set and the
\* entry of the key in the map.
get_reads_needing_exchange_sequential(read_set, entry, delayed_write_set_keys, skip) ==
    collect(IF "key" \notin read_set \/ "key" \in skip \/ entry.tag = "NoEntry"
            THEN {}
            ELSE IF entry.tag = "RawFromStorage"
            THEN {Yield("key", "Err", [value |-> entry.v, layout |-> None])}
            ELSE IF entry.layout = None
            THEN {}
            ELSE {does_value_need_exchange(entry.v, TheOne(entry.layout),
                                           delayed_write_set_keys, "key")})

\* get_reads_needing_exchange (1718-1743).
get_reads_needing_exchange(delayed_write_set_keys, skip) ==
    IF variant = "Sync"
    THEN get_reads_needing_exchange_parallel(data_reads[1], delayed_write_set_keys, skip)
    ELSE get_reads_needing_exchange_sequential(resource_with_layout_read_set, mv_data,
                                               delayed_write_set_keys, skip)

\* The view is asked, at the end of the execution, for the resource reads
\* that need an exchange.
GetReadsNeedingExchange ==
    /\ frame[1].pc \in {"idle", "done"}
    /\ \E delayed_write_set_keys \in DelayedWriteSets, skip \in SUBSET {"key"} :
          \E r \in {get_reads_needing_exchange(delayed_write_set_keys, skip)} :
             needs_last' = [NoNeeds EXCEPT !.op = "get_reads_needing_exchange",
                                           !.keys = delayed_write_set_keys, !.skip = skip,
                                           !.ok = r.ok, !.err = code_invariant_error(r.ok),
                                           !.map = r.map]
    /\ frame' = [frame EXCEPT ![1] = Done]
    /\ UNCHANGED <<tags_read, modVars>>
    /\ UNCHANGED <<mv_data, data_reads, view_flags, resLast, resource_with_layout_read_set>>
    /\ UNCHANGED <<counter, delayed_fields, groupVars>>
    /\ ViewFrame

\* get_resource_from_group of the sequential thread, with the tag it read.
SequentialGetResourceFromGroupOfTag ==
    /\ variant = "Unsync"
    /\ frame[1].pc = "idle"
    /\ \E tag \in Tags, maybe_layout \in MaybeLayouts :
          /\ SequentialGroupStep("GroupValue", tag, Known(maybe_layout), group_gate(maybe_layout))
          /\ tags_read' = IF /\ resLast'.result.ret = "Value"
                             /\ resLast'.result.value # None
                             /\ resLast'.result.layout # None
                          THEN tags_read \cup {tag} ELSE tags_read
    /\ UNCHANGED <<group_reads, needs_last, modVars>>
    /\ UNCHANGED <<mv_data, data_reads, resource_with_layout_read_set>>
    /\ ViewFrame


\* TransactionWrite of a state value: StateValue::new_with_metadata,
\* from_state_value and convert_read_to_modification.
new_with_metadata(bytes, metadata) == [bytes |-> bytes, metadata |-> metadata]

from_state_value(maybe_state_value) ==
    IF maybe_state_value = None THEN [kind |-> "Deletion"]
    ELSE [kind |-> "Creation", bytes |-> TheOne(maybe_state_value).bytes,
          metadata |-> TheOne(maybe_state_value).metadata]

convert_read_to_modification(op) ==
    IF op.kind = "Creation" THEN Some([op EXCEPT !.kind = "Modification"]) ELSE None

\* The T::Value an entry of the map holds for a value v read from storage
\* (1376, 1378): the write made of the whole state value.
value_of_entry(v) ==
    from_state_value(IF v = None THEN None
                     ELSE Some(new_with_metadata(TheOne(v), TheOne(as_state_value_metadata(v)))))

\* The tags in the order of the BTreeMap of the inner reads.
TagOrder == <<"A", "B">>

\* Lines 1203-1216 and 1263-1275: the loop over the values (reads[t] for
\* the tags of order from i on): a value with a layout and bytes whose
\* identifiers meet delayed_write_set_keys is found, none is, or the
\* unwrap() of the identifiers panics.
RECURSIVE resources_needing_delayed_field_exchange(_, _, _, _)
resources_needing_delayed_field_exchange(reads, order, i, delayed_write_set_keys) ==
    IF i > Len(order) THEN "none"
    ELSE IF order[i] \notin DOMAIN reads \/ reads[order[i]].layout = None \/ reads[order[i]].v = None
    THEN resources_needing_delayed_field_exchange(reads, order, i + 1, delayed_write_set_keys)
    ELSE IF ~extract_identifiers_from_value(TheOne(reads[order[i]].v),
                                            TheOne(reads[order[i]].layout)).ok
    THEN "panic"
    ELSE IF meets_delayed_write_set(
                extract_identifiers_from_value(TheOne(reads[order[i]].v),
                                               TheOne(reads[order[i]].layout)).ids,
                delayed_write_set_keys)
    THEN "found"
    ELSE resources_needing_delayed_field_exchange(reads, order, i + 1, delayed_write_set_keys)

\* The inner reads of the captured group read that are values (1204).
versioned_inner_reads(gread) ==
    [t \in {u \in Tags : gread.tags[u].kind = "Value"} |->
        [v |-> gread.tags[t].v, layout |-> gread.tags[t].layout]]

\* The entries of the tags of the group in the map that are exchanged (1264).
exchanged_entries(group) ==
    [t \in {u \in DOMAIN group.entries : group.entries[u].tag = "Exchanged"} |->
        [v |-> group.entries[t].v, layout |-> group.entries[t].layout]]

\* What a call yields for the group key, and what it leaves of the
\* captured reads, the flags and the entry of the group key.
GroupYield(kind, entry, metadata, size, gread, flags, meta) ==
    [kind |-> kind, entry |-> entry, metadata |-> metadata, size |-> size,
     read |-> gread, flags |-> flags, meta |-> meta]

\* One cached lookup of get_resource_state_value_impl for the metadata of
\* the group key (537-543, then the fetch of the map).
metadata_lookup(meta, read, flags, answer, c, store) ==
    IF cached_read(read, "Metadata") # None
    THEN FetchOut("return", from_data_read(TheOne(cached_read(read, "Metadata"))),
                  read, flags, c, store, None)
    ELSE parallel_fetch(meta, read, flags, "Metadata", Unknown, answer, c, store)

\* Lines 1352-1367 and 1425-1431: what get_resource_state_value_metadata
\* returns for the lookup f: Ok(Some(metadata)), Ok(None) or an error.
metadata_returned(f, meta) ==
    [res |-> IF f.result.ret = "Uninitialized" THEN "Panic"
             ELSE IF f.result.ret # "Metadata" THEN "Err"
             ELSE IF f.result.value = None THEN "None" ELSE "Some",
     value |-> f.result.value, meta |-> meta, read |-> f.read, flags |-> f.flags]

\* Lines 1337-1349: the base value of the group key is read from storage
\* (g) and installed, and the lookup is done again.
metadata_from_storage(g, f1, meta, answer, c, store) ==
    IF ~g.ok
    THEN [res |-> "Err", value |-> None, meta |-> meta, read |-> f1.read, flags |-> g.flags]
    ELSE metadata_returned(
             metadata_lookup(mv_set_base_value(meta, g.value), f1.read, g.flags, answer, c, store),
             mv_set_base_value(meta, g.value))

metadata_after_first(f1, meta, storage, answer, c, store) ==
    IF f1.result.ret # "Uninitialized"
    THEN metadata_returned(f1, meta)
    ELSE metadata_from_storage(get_base_value_with_layout(storage, Unknown, f1.flags, c, store),
                               f1, meta, answer, c, store)

\* get_resource_state_value_metadata (1420-1432) of the group key in the
\* parallel variant.
get_group_key_metadata(meta, storage, read, flags, answer1, answer2, c, store) ==
    metadata_after_first(metadata_lookup(meta, read, flags, answer1, c, store),
                         meta, storage, answer2, c, store)

\* read_group_size of the parallel variant (473-515).
read_group_size(group, gread, flags, answer, c, store) ==
    IF cached_group_size(gread) # None
    THEN FetchOut("return", GroupReadSize(TheOne(cached_group_size(gread))), gread, flags,
                  c, store, None)
    ELSE size_fetch(group, gread, flags, answer, c, store)

\* Lines 1222-1226 and 1230-1232: the op made of the metadata alone.
metadata_op_of_metadata(maybe_metadata) ==
    convert_read_to_modification(
        from_state_value(IF maybe_metadata = None THEN None
                         ELSE Some(new_with_metadata(<< >>, TheOne(maybe_metadata)))))

\* Lines 1279-1287: the op made of the entry of the group key.
metadata_op_of_entry(meta) == convert_read_to_modification(value_of_entry(meta.v))

\* Lines 1227-1245: the size was read (f) after the metadata m.
parallel_group_entry(m, f) ==
    IF f.result.ret # "Size"
    THEN GroupYield("Err", None, m.res, f.result.ret, f.read, f.flags, m.meta)
    ELSE IF metadata_op_of_metadata(m.value) = None
    THEN GroupYield("Err", None, m.res, f.result.ret, f.read, f.flags, m.meta)
    ELSE GroupYield("Ok", Some([op |-> TheOne(metadata_op_of_metadata(m.value)),
                                size |-> TheOne(f.result.value)]),
                    m.res, f.result.ret, f.read, f.flags, m.meta)

\* Lines 1221-1245: the metadata of the group key was read (m).
parallel_group_after_metadata(m, group, gread, size_answer, c, store) ==
    IF m.res = "Panic"
    THEN GroupYield("Panic", None, m.res, "unread", [gread EXCEPT !.key_read = m.read],
                    m.flags, m.meta)
    ELSE IF m.res # "Some"
    THEN GroupYield("Err", None, m.res, "unread", [gread EXCEPT !.key_read = m.read],
                    m.flags, m.meta)
    ELSE parallel_group_entry(
             m, read_group_size(group, [gread EXCEPT !.key_read = m.read], m.flags,
                                size_answer, c, store))

\* get_group_reads_needing_exchange_parallel (1185-1248) on the captured
\* read of the group.
parallel_group_found(found, group, meta, storage, gread, flags, answer1, answer2, size_answer, c, store) ==
    IF found = "none"
    THEN GroupYield("None", None, "unread", "unread", gread, flags, meta)
    ELSE IF found = "panic"
    THEN GroupYield("Panic", None, "unread", "unread", gread, flags, meta)
    ELSE parallel_group_after_metadata(
             get_group_key_metadata(meta, storage, gread.key_read, flags, answer1, answer2,
                                    c, store),
             group, gread, size_answer, c, store)

get_group_reads_needing_exchange_parallel(group, meta, storage, gread, flags, delayed_write_set_keys, skip, answer1, answer2, size_answer, c, store) ==
    IF "group" \in skip \/ \A t \in Tags : ~(gread.tags[t].kind = "Value" /\ gread.tags[t].layout # None)
    THEN GroupYield("None", None, "unread", "unread", gread, flags, meta)
    ELSE parallel_group_found(
             resources_needing_delayed_field_exchange(versioned_inner_reads(gread), TagOrder, 1,
                                                      delayed_write_set_keys),
             group, meta, storage, gread, flags, answer1, answer2, size_answer, c, store)

\* Lines 1279-1300: the entry of the group key and the size of the group.
sequential_group_entry(group, meta, gread, flags) ==
    IF meta.tag = "NoEntry"
    THEN GroupYield("Err", None, "None", "unread", gread, flags, meta)
    ELSE IF group.tag = "NoEntry"
    THEN GroupYield("Err", None, "Some", "Uninitialized", gread, flags, meta)
    ELSE IF metadata_op_of_entry(meta) = None
    THEN GroupYield("Err", None, "None", "Size", gread, flags, meta)
    ELSE GroupYield("Ok", Some([op |-> TheOne(metadata_op_of_entry(meta)), size |-> group.size]),
                    "Some", "Size", gread, flags, meta)

sequential_group_found(found, group, meta, gread, flags) ==
    IF found = "none"
    THEN GroupYield("None", None, "unread", "unread", gread, flags, meta)
    ELSE IF found = "panic"
    THEN GroupYield("Panic", None, "unread", "unread", gread, flags, meta)
    ELSE sequential_group_entry(group, meta, gread, flags)

\* get_group_reads_needing_exchange_sequential (1250-1305) on the group
\* read set and the group of the key in the map.
get_group_reads_needing_exchange_sequential(read_set, group, meta, gread, flags, delayed_write_set_keys, skip) ==
    IF "group" \notin read_set \/ "group" \in skip \/ group.tag = "NoEntry"
    THEN GroupYield("None", None, "unread", "unread", gread, flags, meta)
    ELSE sequential_group_found(
             resources_needing_delayed_field_exchange(exchanged_entries(group), TagOrder, 1,
                                                      delayed_write_set_keys),
             group, meta, gread, flags)

\* get_group_reads_needing_exchange (1745-1765).
get_group_reads_needing_exchange(delayed_write_set_keys, skip, answer1, answer2, size_answer) ==
    IF variant = "Sync"
    THEN get_group_reads_needing_exchange_parallel(
             mv_group, mv_group_meta, group_base_view, group_reads[1], view_flags[1],
             delayed_write_set_keys, skip, answer1, answer2, size_answer, counter, delayed_fields)
    ELSE get_group_reads_needing_exchange_sequential(
             group_read_set, mv_group, mv_group_meta, group_reads[1], view_flags[1],
             delayed_write_set_keys, skip)

\* The map or the error the call returns for what the group key yields.
group_needs(y, delayed_write_set_keys, skip) ==
    [op |-> IF y.kind = "Panic" THEN "panic" ELSE "get_group_reads_needing_exchange",
     keys |-> delayed_write_set_keys, skip |-> skip,
     ok |-> y.kind \in {"None", "Ok"},
     err |-> IF y.kind = "Err" THEN "CodeInvariantError" ELSE "none",
     map |-> IF y.kind = "Ok" THEN {[key |-> "group", entry |-> TheOne(y.entry)]} ELSE {},
     metadata |-> y.metadata, size |-> y.size]

\* What the map answers to the lookups of the call that reach it: the
\* sequential variant fetches no versioned entry, the first lookup of the
\* metadata fetches unless a captured read answers it, the second one
\* follows an Uninitialized, and the size is fetched unless it is captured.
MetadataAnswers(lookup) ==
    IF variant = "Unsync" THEN {"Entry"}
    ELSE IF lookup = 1 /\ cached_read(group_reads[1].key_read, "Metadata") # None THEN {"Entry"}
    ELSE IF lookup = 2 /\ mv_group_meta.tag # "NoEntry" THEN {"Entry"}
    ELSE FetchAnswers

SizeAnswers ==
    IF variant = "Unsync" \/ cached_group_size(group_reads[1]) # None THEN {"Entry"}
    ELSE GroupFetchAnswers("GroupSize")

\* The view is asked, at the end of the execution, for the group reads
\* that need an exchange.
GetGroupReadsNeedingExchange ==
    /\ frame[1].pc \in {"idle", "done"}
    /\ \E delayed_write_set_keys \in DelayedWriteSets, skip \in SUBSET {"group"},
          answer1 \in MetadataAnswers(1), answer2 \in MetadataAnswers(2),
          size_answer \in SizeAnswers :
          \E y \in {get_group_reads_needing_exchange(delayed_write_set_keys, skip,
                                                     answer1, answer2, size_answer)} :
             /\ needs_last' = group_needs(y, delayed_write_set_keys, skip)
             /\ group_reads' = [group_reads EXCEPT ![1] = y.read]
             /\ view_flags' = [view_flags EXCEPT ![1] = y.flags]
             /\ mv_group_meta' = y.meta
    /\ frame' = [frame EXCEPT ![1] = Done]
    /\ UNCHANGED <<tags_read, mv_group, group_read_set, modVars>>
    /\ UNCHANGED <<mv_data, data_reads, resLast, resource_with_layout_read_set>>
    /\ UNCHANGED <<counter, delayed_fields>>
    /\ ViewFrame


(***************************************************************************)
(* wait_for_dependency (401-434).  Transaction i is executed by one        *)
(* worker; its condition is a mutex, a condition variable and the          *)
(* DependencyStatus they guard.  The scheduler is modelled by what the     *)
(* waiter sees of it: the result of its wait_for_dependency, and the       *)
(* update of the status with the notification.                             *)
(***************************************************************************)
Txns == 1..NumTxns

NoWait == [call |-> 0, result |-> "none", ret |-> FALSE, blocked |-> FALSE,
           observed |-> "none"]

DepIdle ==
    /\ txn_state = [i \in Txns |-> "executing"]
    /\ halted = FALSE
    /\ wait_pc = [i \in Txns |-> "none"]
    /\ dep_idx = [i \in Txns |-> 0]
    /\ dep_resolved = [i \in Txns |-> "Resolved"]
    /\ dep_lock = [i \in Txns |-> "free"]
    /\ waits = 0
    /\ wait_last = [i \in Txns |-> NoWait]

DepFrame == UNCHANGED <<dfVars, idVars, xVars, resVars, groupVars, needsVars, modVars, writeVars>>

\* Scheduler::wait_for_dependency: halted, already resolved, or a condition
\* whose status is Unresolved.
scheduler_wait_for_dependency(dep) ==
    IF halted THEN "ExecutionHalted"
    ELSE IF txn_state[dep] = "finished" THEN "Resolved"
    ELSE "Dependency"

\* Line 426: the waiter goes on waiting.
still_waiting_unless_resolved(status) == status # "Resolved"

still_waiting(status) == status = "Unresolved"

\* Line 430: the value returned after the wait.
safe_to_continue_unless_unresolved(status) == status # "Unresolved"

safe_to_continue(status) == status = "Resolved"

\* Lines 406 and 431-432: the call, and its return when the scheduler
\* answers ExecutionHalted or Resolved.
CallWaitForDependency(i) ==
    /\ txn_state[i] = "executing"
    /\ wait_pc[i] = "none"
    /\ waits < MaxWaits
    /\ \E dep \in 1..(i - 1) :
          \E result \in {scheduler_wait_for_dependency(dep)} :
             /\ waits' = waits + 1
             /\ IF result = "Dependency"
                THEN /\ wait_pc' = [wait_pc EXCEPT ![i] = "lock"]
                     /\ dep_idx' = [dep_idx EXCEPT ![i] = dep]
                     /\ dep_resolved' = [dep_resolved EXCEPT ![i] = "Unresolved"]
                     /\ wait_last' = [wait_last EXCEPT ![i] =
                                         [NoWait EXCEPT !.call = waits + 1, !.result = result]]
                     /\ UNCHANGED txn_state
                ELSE /\ wait_last' = [wait_last EXCEPT ![i] =
                                         [call |-> waits + 1, result |-> result,
                                          ret |-> result = "Resolved", blocked |-> FALSE,
                                          observed |-> "none"]]
                     \* a read that is not safe to continue ends the execution
                     /\ txn_state' = [txn_state EXCEPT ![i] =
                                         IF result = "Resolved" THEN @ ELSE "finished"]
                     /\ UNCHANGED <<wait_pc, dep_idx, dep_resolved>>
    /\ UNCHANGED <<halted, dep_lock>>
    /\ DepFrame

\* Line 425, and the end of cvar.wait: the waiter takes the mutex.
LockCondition(i) ==
    /\ wait_pc[i] \in {"lock", "reacquire"}
    /\ dep_lock[i] = "free"
    /\ dep_lock' = [dep_lock EXCEPT ![i] = "waiter"]
    /\ wait_pc' = [wait_pc EXCEPT ![i] = "check"]
    /\ UNCHANGED <<txn_state, halted, dep_idx, dep_resolved, waits, wait_last>>
    /\ DepFrame

\* Lines 426-430: under the mutex, the waiter waits on the condition
\* variable (releasing the mutex) or returns.
CheckCondition(i) ==
    /\ wait_pc[i] = "check"
    /\ dep_lock' = [dep_lock EXCEPT ![i] = "free"]
    /\ IF still_waiting(dep_resolved[i])
       THEN /\ wait_pc' = [wait_pc EXCEPT ![i] = "parked"]
            /\ wait_last' = [wait_last EXCEPT ![i].blocked = TRUE]
            /\ UNCHANGED <<txn_state, dep_idx>>
       ELSE /\ wait_pc' = [wait_pc EXCEPT ![i] = "none"]
            /\ dep_idx' = [dep_idx EXCEPT ![i] = 0]
            /\ wait_last' = [wait_last EXCEPT ![i].ret = safe_to_continue(dep_resolved[i]),
                                              ![i].observed = dep_resolved[i]]
            /\ txn_state' = [txn_state EXCEPT ![i] =
                                IF safe_to_continue(dep_resolved[i]) THEN @ ELSE "finished"]
    /\ UNCHANGED <<halted, dep_resolved, waits>>
    /\ DepFrame

\* cvar.wait may return without a notification.
SpuriousWakeup(i) ==
    /\ wait_pc[i] = "parked"
    /\ wait_pc' = [wait_pc EXCEPT ![i] = "reacquire"]
    /\ UNCHANGED <<txn_state, halted, dep_idx, dep_resolved, dep_lock, waits, wait_last>>
    /\ DepFrame

\* The execution of the transaction finishes.
FinishExecution(i) ==
    /\ txn_state[i] = "executing"
    /\ wait_pc[i] = "none"
    /\ txn_state' = [txn_state EXCEPT ![i] = "finished"]
    /\ UNCHANGED <<halted, wait_pc, dep_idx, dep_resolved, dep_lock, waits, wait_last>>
    /\ DepFrame

\* The block execution is halted.
HaltExecution ==
    /\ ~halted
    /\ halted' = TRUE
    /\ UNCHANGED <<txn_state, wait_pc, dep_idx, dep_resolved, dep_lock, waits, wait_last>>
    /\ DepFrame

\* The scheduler takes the mutex of the condition of a waiter whose
\* dependency finished, or of any waiter once the block is halted.
SchedulerLock(i) ==
    /\ dep_idx[i] # 0
    /\ dep_resolved[i] = "Unresolved"
    /\ halted \/ txn_state[dep_idx[i]] = "finished"
    /\ dep_lock[i] = "free"
    /\ dep_lock' = [dep_lock EXCEPT ![i] = "scheduler"]
    /\ UNCHANGED <<txn_state, halted, wait_pc, dep_idx, dep_resolved, waits, wait_last>>
    /\ DepFrame

\* The scheduler sets the status, notifies the condition variable and
\* releases the mutex.
SchedulerNotify(i) ==
    /\ dep_lock[i] = "scheduler"
    /\ dep_resolved' = [dep_resolved EXCEPT ![i] =
                           IF halted THEN "ExecutionHalted" ELSE "Resolved"]
    /\ wait_pc' = [wait_pc EXCEPT ![i] = IF @ = "parked" THEN "reacquire" ELSE @]
    /\ dep_lock' = [dep_lock EXCEPT ![i] = "free"]
    /\ UNCHANGED <<txn_state, halted, dep_idx, waits, wait_last>>
    /\ DepFrame

Init ==
    /\ DFInit
    /\ DepIdle
    /\ NeedsIdle
    /\ IdIdle("Sync", TRUE, 0)
    /\ XIdle
    /\ ResIdle(StorageOk(None))
    /\ GroupIdle(StorageOk(None))
Next == TryAddDelta \/ GetValue
Spec == Init /\ [][Next]_vars

NextDFAny == TryAddDeltaAny \/ GetValue
SpecDFAny == Init /\ [][NextDFAny]_vars

\* A transaction below the one of the view writes the resource key, or its
\* write is removed: the visible version of the key changes.
LowerTxnWrites ==
    /\ variant = "Sync"
    /\ \E written \in Writes \ {mv_written} : mv_written' = written
    /\ UNCHANGED <<dfVars, idVars, xVars, resVars, groupVars, depVars, needsVars, modVars>>

\* One worker of the parallel variant reading the resource while the
\* transactions below it write it.
InitWrites ==
    /\ DFInit
    /\ DepIdle
    /\ NeedsIdle
    /\ XIdle
    /\ IdIdle("Sync", TRUE, 0)
    /\ \E storage \in BaseViews : ResIdle(storage)
    /\ GroupIdle(StorageOk(None))
NextWrites ==
    \/ ResourceRead(1)
    \/ InstallPatched(1)
    \/ SetBaseValue(1)
    \/ LowerTxnWrites
    \/ NewAttempt(1)
SpecWrites == InitWrites /\ [][NextWrites]_vars

(***************************************************************************)
(* The reads that wait for a dependency.  A loop over the map or over the  *)
(* delayed-field store is answered Dependency n_deps times with            *)
(* wait_for_dependency returning true, and then anything else, or          *)
(* Dependency once more with wait_for_dependency returning false.  The     *)
(* reads below are the ones of an execution whose calls all meet a         *)
(* dependency in their first query; waits counts their calls of            *)
(* wait_for_dependency.                                                    *)
(***************************************************************************)
\* The calls of wait_for_dependency of a loop that ends as said.
WaitsOf(n_deps, wait_failed) == n_deps + (IF wait_failed THEN 1 ELSE 0)

\* The loop calls wait_for_dependency k times, at least `least` times.
CountWaits(k, least) ==
    /\ k >= least
    /\ waits + k <= MaxWaits
    /\ waits' = waits + k

\* What no read that waits changes.
WaitingFrame ==
    /\ UNCHANGED <<variant, enabled, start_counter, generated, idLast>>
    /\ UNCHANGED <<xPatch, xRestore, base_view, group_base_view>>
    /\ UNCHANGED <<txn_state, halted, wait_pc, dep_idx, dep_resolved, dep_lock, wait_last>>
    /\ UNCHANGED <<needsVars, modVars, writeVars>>
    /\ UNCHANGED <<resource_with_layout_read_set, group_read_set>>

ResWaitingFrame ==
    /\ WaitingFrame
    /\ UNCHANGED <<dfVars, mv_group, mv_group_meta, group_reads>>

GroupWaitingFrame ==
    /\ WaitingFrame
    /\ UNCHANGED <<dfVars, mv_data, data_reads>>

\* A turn of the loop of read_cached_data_by_kind (548-652) with its waits.
ParallelStepWaiting(w, entry, fetched, kind, layout_in, layout, second, q, b, least) ==
    \E answer \in FetchAnswers, n_deps \in DepCounts :
        /\ CountWaits(WaitsOf(n_deps, answer = "DependencyHalted"), least)
        /\ ParallelStepWith(w, entry, fetched, kind, layout_in, layout, second, q + n_deps, b,
                            answer)

\* A read of TResourceView whose first query of the map is answered Dependency.
ResourceReadWaiting(w) ==
    /\ variant = "Sync"
    /\ frame[w].pc = "idle"
    /\ \E req \in ReadRequests :
          /\ cached_read(data_reads[w], req.kind) = None
          /\ ParallelStepWaiting(w, mv_data, mv_data, req.kind, req.layout, gate(req.layout),
                                 FALSE, 0, 0, 1)
    /\ ResWaitingFrame

\* InstallPatched, with the waits of its fetch.
InstallPatchedWaiting(w) ==
    /\ frame[w].pc = "install"
    /\ \E installed \in {mv_set_base_value(mv_data, frame[w].value)} :
          ParallelStepWaiting(w, installed, refetch(installed, frame[w].value), frame[w].kind,
                              frame[w].asked, frame[w].layout, frame[w].second,
                              frame[w].queries, frame[w].base_reads, 0)
    /\ ResWaitingFrame

\* SetBaseValue, with the waits of its second lookup.
SetBaseValueWaiting(w) ==
    /\ frame[w].pc = "set_base"
    /\ cached_read(data_reads[w], frame[w].kind) = None
    /\ \E entry \in {mv_set_base_value(mv_data, frame[w].value)} :
          ParallelStepWaiting(w, entry, entry, frame[w].kind, frame[w].asked, frame[w].layout,
                              TRUE, frame[w].queries, frame[w].base_reads, 0)
    /\ ResWaitingFrame

\* A turn of the loops of read_group_size (484-515) and of
\* read_cached_group_tagged_data (672-741) with its waits.
GroupStepWaiting(w, group, meta, kind, tag, layout_in, maybe_layout, second, q, b, least) ==
    \E answer \in GroupFetchAnswers(kind), n_deps \in DepCounts :
        /\ CountWaits(WaitsOf(n_deps, answer = "DependencyHalted"), least)
        /\ GroupStepWith(w, group, meta, kind, tag, layout_in, maybe_layout, second,
                         q + n_deps, b, answer)

\* resource_group_size whose first query of the map is answered Dependency.
ResourceGroupSizeWaiting(w) ==
    /\ variant = "Sync"
    /\ frame[w].pc = "idle"
    /\ cached_group_size(group_reads[w]) = None
    /\ GroupStepWaiting(w, mv_group, mv_group_meta, "GroupSize", "none", Unknown, None,
                        FALSE, 0, 0, 1)
    /\ GroupWaitingFrame

\* get_resource_from_group whose first query of the map is answered Dependency.
GetResourceFromGroupWaiting(w) ==
    /\ variant = "Sync"
    /\ frame[w].pc = "idle"
    /\ \E tag \in Tags, maybe_layout \in MaybeLayouts :
          /\ cached_tagged_read(group_reads[w], tag) = None
          /\ GroupStepWaiting(w, mv_group, mv_group_meta, "GroupValue", tag,
                              Known(maybe_layout), group_gate(maybe_layout), FALSE, 0, 0, 1)
    /\ GroupWaitingFrame

\* UpdateTaggedBaseValue, with the waits of its fetch.
UpdateTaggedBaseValueWaiting(w) ==
    /\ frame[w].pc = "g_install"
    /\ GroupStepWaiting(w, mv_update_tagged_base_value_with_layout(
                               mv_group, frame[w].tag, frame[w].value, frame[w].layout),
                        mv_group_meta, frame[w].kind, frame[w].tag, frame[w].asked,
                        frame[w].layout, frame[w].second, frame[w].queries,
                        frame[w].base_reads, 0)
    /\ GroupWaitingFrame

\* InitializeGroup, with the waits of its second lookup.
InitializeGroupWaiting(w) ==
    /\ frame[w].pc = "g_init"
    /\ GroupStepWaiting(w, mv_set_raw_base_values(mv_group, base_group(group_base_view)),
                        mv_set_base_value(mv_group_meta, RawFromStorage(group_base_view.v)),
                        frame[w].kind, frame[w].tag, frame[w].asked, frame[w].layout, TRUE,
                        frame[w].queries, frame[w].base_reads, 0)
    /\ GroupWaitingFrame

DFWaitingFrame ==
    /\ WaitingFrame
    /\ UNCHANGED <<counter, delayed_fields>>
    /\ UNCHANGED <<mv_data, data_reads, view_flags, frame, resLast>>
    /\ UNCHANGED <<mv_group, mv_group_meta, group_reads>>

\* get_delayed_field_value_impl whose first read of the store is answered
\* Dependency.
GetValueWaiting ==
    /\ frame[1].pc = "idle"
    /\ dfRead.kind # "Value"
    /\ \E answer \in AnswersOf(ReadOutcomes) :
          /\ CountWaits(WaitsOf(answer.n_deps, answer.outcome = "Halted"), 1)
          /\ GetValueWith(answer)
    /\ DFWaitingFrame

\* delayed_field_try_add_delta_outcome_impl whose first read of the store
\* is answered Dependency.
TryAddDeltaWaiting ==
    /\ frame[1].pc = "idle"
    /\ \E delta \in Deltas :
          /\ TryAddReadsStore(callerBase, delta, MaxValue)
          /\ \E answer \in AnswersOf(LatestOutcomes) :
                /\ CountWaits(WaitsOf(answer.n_deps, answer.outcome = "Halted"), 1)
                /\ TryAdd(callerBase, delta, MaxValue, answer)
          /\ callerBase' =
                IF dfLast'.ret = "true" /\ signed_add(MaxValue, callerBase, delta).ok
                THEN signed_add(MaxValue, callerBase, delta).v
                ELSE callerBase
    /\ DFWaitingFrame

InitWaits ==
    /\ DFInit
    /\ DepIdle
    /\ NeedsIdle
    /\ XIdle
    /\ IdIdle("Sync", TRUE, 0)
    /\ \E storage \in BaseViews : ResIdle(storage)
    /\ GroupIdle(StorageOk(Some(StoredGroup)))
NextWaits ==
    \/ ResourceReadWaiting(1)
    \/ InstallPatchedWaiting(1)
    \/ SetBaseValueWaiting(1)
    \/ ResourceGroupSizeWaiting(1)
    \/ GetResourceFromGroupWaiting(1)
    \/ UpdateTaggedBaseValueWaiting(1)
    \/ InitializeGroupWaiting(1)
    \/ GetValueWaiting
    \/ TryAddDeltaWaiting
SpecWaits == InitWaits /\ [][NextWaits]_vars

\* The engine called with more than one limit.
NextLimits == TryAddDeltaWithLimit
SpecLimits == Init /\ [][NextLimits]_vars

\* The identifier generator alone, in both variants and from any start.
InitId ==
    /\ DFInit
    /\ DepIdle
    /\ NeedsIdle
    /\ XIdle
    /\ ResIdle(StorageOk(None))
    /\ GroupIdle(StorageOk(None))
    /\ \E v \in {"Sync", "Unsync"}, start \in StartCounters : IdIdle(v, TRUE, start)
NextId == GenerateId \/ ValidateId
SpecId == InitId /\ [][NextId]_vars

\* The resource reads of the workers of a block, in both variants.
InitRes ==
    /\ DFInit
    /\ DepIdle
    /\ NeedsIdle
    /\ XIdle
    /\ \/ IdIdle("Sync", TRUE, 0)
       \/ \E e \in BOOLEAN : IdIdle("Unsync", e, 0)
    /\ \E storage \in BaseViews : ResIdle(storage)
    /\ GroupIdle(StorageOk(None))
NextRes ==
    \/ \E w \in Workers : ResourceRead(w)
    \/ \E w \in Workers : InstallPatched(w)
    \/ \E w \in Workers : SetBaseValue(w)
    \/ SequentialResourceRead
    \/ \E w \in Workers : NewAttempt(w)
SpecRes == InitRes /\ [][NextRes]_vars

\* The parallel variant reading the size of the group: the workers, and the
\* writes of the transactions below them.
InitGroupSize ==
    /\ DFInit
    /\ DepIdle
    /\ NeedsIdle
    /\ XIdle
    /\ IdIdle("Sync", TRUE, 0)
    /\ ResIdle(StorageOk(None))
    /\ \E storage \in GroupBaseViews : GroupIdle(storage)
NextGroupSize ==
    \/ \E w \in Workers : ResourceGroupSize(w)
    \/ \E w \in Workers : InitializeGroup(w)
    \/ OtherTxnGroupWrite
    \/ \E w \in Workers : NewAttempt(w)
SpecGroupSize == InitGroupSize /\ [][NextGroupSize]_vars

\* The reads of the tags of a group by a worker of the parallel variant.
NextTags ==
    \/ GetResourceFromGroup(1)
    \/ UpdateTaggedBaseValue(1)
    \/ InitializeGroup(1)
    \/ NewAttempt(1)
SpecTags == InitGroupSize /\ [][NextTags]_vars

\* One view of either variant reading the resource and the group, with
\* dynamic_change_set_optimizations_enabled on or off (the parallel variant
\* has no such flag: the model lets it hold either value there).
InitGate ==
    /\ DFInit
    /\ DepIdle
    /\ NeedsIdle
    /\ XIdle
    /\ \E v \in {"Sync", "Unsync"}, e \in BOOLEAN : IdIdle(v, e, 0)
    /\ \E storage \in BaseViews : ResIdle(storage)
    /\ \E storage \in GroupBaseViews : GroupIdle(storage)
NextGate ==
    \/ ResourceRead(1)
    \/ InstallPatched(1)
    \/ SetBaseValue(1)
    \/ ResourceGroupSize(1)
    \/ GetResourceFromGroup(1)
    \/ UpdateTaggedBaseValue(1)
    \/ InitializeGroup(1)
    \/ SequentialResourceRead
    \/ SequentialResourceGroupSize
    \/ SequentialGetResourceFromGroup
    \/ NewAttempt(1)
SpecGate == InitGate /\ [][NextGate]_vars

\* The waits for dependencies: the transactions, and the scheduler.
InitDep ==
    /\ DFInit
    /\ DepIdle
    /\ NeedsIdle
    /\ XIdle
    /\ IdIdle("Sync", TRUE, 0)
    /\ ResIdle(StorageOk(None))
    /\ GroupIdle(StorageOk(None))
NextDep ==
    \/ \E i \in Txns : CallWaitForDependency(i)
    \/ \E i \in Txns : LockCondition(i)
    \/ \E i \in Txns : CheckCondition(i)
    \/ \E i \in Txns : SpuriousWakeup(i)
    \/ \E i \in Txns : FinishExecution(i)
    \/ HaltExecution
    \/ \E i \in Txns : SchedulerLock(i)
    \/ \E i \in Txns : SchedulerNotify(i)
SpecDep == InitDep /\ [][NextDep]_vars

\* The workers and the scheduler keep running: a step that stays possible
\* is taken, and the scheduler gets the mutex it keeps asking for.
FairDep ==
    \A i \in Txns :
        /\ WF_vars(LockCondition(i))
        /\ WF_vars(CheckCondition(i))
        /\ WF_vars(FinishExecution(i))
        /\ SF_vars(SchedulerLock(i))
        /\ WF_vars(SchedulerNotify(i))
SpecDepFair == SpecDep /\ FairDep

\* One worker of either variant calling try-add-delta on an aggregator
\* whose value in the store is fixed.
InitContract ==
    /\ DFInit
    /\ DepIdle
    /\ NeedsIdle
    /\ xPatch = NoExchange
    /\ xRestore = NoExchange
    /\ \E v \in Values :
          delayed_fields = [id \in {TheId} |-> [kind |-> "Aggregator", v |-> v]]
    /\ \E v \in {"Sync", "Unsync"} : IdIdle(v, TRUE, 0)
    /\ ResIdle(StorageOk(None))
    /\ GroupIdle(StorageOk(None))
NextContract == TryAddDeltaOutcome
SpecContract == InitContract /\ [][NextContract]_vars

\* The resource reads of an execution and, at its end, the reads that need
\* an exchange, in both variants and from two start counters.
InitNeeds ==
    /\ DFInit
    /\ DepIdle
    /\ NeedsIdle
    /\ XIdle
    /\ \E v \in {"Sync", "Unsync"}, e \in BOOLEAN, start \in 0..1 : IdIdle(v, e, start)
    /\ \E storage \in BaseViews : ResIdle(storage)
    /\ GroupIdle(StorageOk(None))
NextNeeds ==
    \/ ResourceRead(1)
    \/ InstallPatched(1)
    \/ SetBaseValue(1)
    \/ SequentialResourceRead
    \/ GetReadsNeedingExchange
    \/ NewAttempt(1)
SpecNeeds == InitNeeds /\ [][NextNeeds]_vars

\* The group reads of an execution and, at its end, the group reads that
\* need an exchange, in both variants; storage holds both tags of the group.
StoredGroupOfTwo == [t \in Tags |-> StoredBytes]
InitGroupNeeds ==
    /\ DFInit
    /\ DepIdle
    /\ NeedsIdle
    /\ XIdle
    /\ \E v \in {"Sync", "Unsync"} : IdIdle(v, TRUE, 0)
    /\ ResIdle(StorageOk(None))
    /\ GroupIdle(StorageOk(Some(StoredGroupOfTwo)))
NextGroupNeeds ==
    \/ ResourceGroupSize(1)
    \/ GetResourceFromGroup(1)
    \/ UpdateTaggedBaseValue(1)
    \/ InitializeGroup(1)
    \/ SequentialResourceGroupSize
    \/ SequentialGetResourceFromGroupOfTag
    \/ GetGroupReadsNeedingExchange
    \/ NewAttempt(1)
SpecGroupNeeds == InitGroupNeeds /\ [][NextGroupNeeds]_vars

(***************************************************************************)
(* The reads of modules: get_module_state_value (1543-1571) with           *)
(* ParallelState::fetch_module (459-471).                                  *)
(***************************************************************************)
ModuleKeys == {"m1", "m2"}
\* The module the map holds and the module storage holds.
MapModule == "module_of_map"
StoredModule == "module_of_storage"
\* What modules().fetch_module answers: a module (its write may be a
\* deletion), an executable, a dependency on a transaction, or nothing.
ModuleAnswers ==
    {[tag |-> "Module", v |-> v] : v \in {None, Some(MapModule)}}
        \cup {[tag |-> "Executable", v |-> None], [tag |-> "Dependency", v |-> None],
              [tag |-> "NotFound", v |-> None]}
\* What unsync_map.fetch_module_data answers: Some(v) or None.
ModuleDataAnswers == {a \in ModuleAnswers : a.tag \in {"Module", "NotFound"}}
ModuleStorages == {StorageOk(None), StorageOk(Some(StoredModule)), StorageError}

ModuleRet(ret, value, storage_reads, incorrect_use) ==
    [ret |-> ret, value |-> value, storage_reads |-> storage_reads,
     incorrect_use |-> incorrect_use]
\* get_raw_base_value (983-999) of the module key.
module_raw_base_value(storage) ==
    IF storage.ok THEN ModuleRet("Ok", storage.v, 1, FALSE)
    ELSE ModuleRet("Err", None, 1, TRUE)
\* The arm of the mutant: the dependency is answered from storage.
parallel_module_value_of_storage(fetch, storage) ==
    CASE fetch.tag = "Executable" -> ModuleRet("Panic", None, 0, FALSE)
      [] fetch.tag = "Module" -> ModuleRet("Ok", fetch.v, 0, FALSE)
      [] OTHER -> module_raw_base_value(storage)
\* The match of the Sync arm on what fetch_module returned (1554-1564).
parallel_module_value(fetch, storage) ==
    CASE fetch.tag = "Executable" -> ModuleRet("Panic", None, 0, FALSE)
      [] fetch.tag = "Module" -> ModuleRet("Ok", fetch.v, 0, FALSE)
      [] fetch.tag = "Dependency" -> ModuleRet("Ok", None, 0, FALSE)
      [] OTHER -> module_raw_base_value(storage)
\* The Unsync arm (1566-1569).
sequential_module_value(fetch, storage) ==
    IF fetch.tag = "Module" THEN ModuleRet("Ok", fetch.v, 0, FALSE)
    ELSE module_raw_base_value(storage)
\* ParallelState::fetch_module: the key is pushed, then the map is asked.
fetch_module(reads, key) == Append(reads, key)

GetModuleStateValueWith(state_key, fetch, storage) ==
    /\ \E r \in {IF variant = "Sync" THEN parallel_module_value(fetch, storage)
                 ELSE sequential_module_value(fetch, storage)} :
          /\ module_last' = [op |-> "get_module_state_value", key |-> state_key,
                             fetch |-> fetch.tag, ret |-> r.ret, value |-> r.value,
                             storage_reads |-> r.storage_reads]
          /\ view_flags' = IF r.incorrect_use
                           THEN [view_flags EXCEPT ![1].incorrect_use = TRUE]
                           ELSE view_flags
    /\ module_reads' = IF variant = "Sync" THEN fetch_module(module_reads, state_key)
                       ELSE module_reads
    /\ UNCHANGED <<base_view, mv_data, data_reads, frame, resLast, resource_with_layout_read_set>>
    /\ UNCHANGED <<dfVars, idVars, xVars, groupVars, depVars, needsVars, writeVars>>

GetModuleStateValue ==
    /\ Len(module_reads) < MaxCalls
    /\ module_last.ret # "Panic"
    /\ \E state_key \in ModuleKeys, storage \in ModuleStorages,
          fetch \in IF variant = "Sync" THEN ModuleAnswers ELSE ModuleDataAnswers :
          GetModuleStateValueWith(state_key, fetch, storage)

InitModules ==
    /\ DFInit
    /\ DepIdle
    /\ NeedsIdle
    /\ XIdle
    /\ \E v \in {"Sync", "Unsync"} : IdIdle(v, TRUE, 0)
    /\ ResIdle(StorageOk(None))
    /\ GroupIdle(StorageOk(None))
NextModules == GetModuleStateValue
SpecModules == InitModules /\ [][NextModules]_vars

\* The exchange of values and identifiers, in both variants.
InitExchange ==
    /\ DFInit
    /\ DepIdle
    /\ NeedsIdle
    /\ XIdle
    /\ ResIdle(StorageOk(None))
    /\ GroupIdle(StorageOk(None))
    /\ \E v \in {"Sync", "Unsync"} : IdIdle(v, TRUE, 0)
NextExchange == ReplaceValuesWithIdentifiers \/ ReplaceIdentifiersWithValues
SpecExchange == InitExchange /\ [][NextExchange]_vars

(***************************************************************************)
(* Claims on the delayed-field engine.                                     *)
(***************************************************************************)
ForbiddenBounds(read) ==
    read.restriction.min_overflow_positive_delta
        \cup read.restriction.max_underflow_negative_delta

\* C1: history soundness.  The caller starts with base_delta = 0 and no
\* captured read and adds delta to base_delta after every call that returned
\* true, so callerBase is the sum of the deltas of the calls that returned
\* true (of all the calls so far when all of them returned true): after every
\* prefix of the calls inner_aggregator_value + callerBase is in [0, max_value].
C1_HistorySoundness ==
    dfRead.kind = "HistoryBounded" =>
        /\ dfRead.inner_aggregator_value + callerBase >= 0
        /\ dfRead.inner_aggregator_value + callerBase <= dfRead.max_value

\* Calls of both signs returned true, none recorded a forbidden delta, and the
\* last one returned true with a sum of deltas that is not zero.
C1_Witness ==
    /\ dfRead.kind = "HistoryBounded"
    /\ dfLast.op = "try_add" /\ dfLast.ret = "true"
    /\ dfRead.restriction.max_achieved_positive_delta > 0
    /\ dfRead.restriction.min_achieved_negative_delta > 0
    /\ ForbiddenBounds(dfRead) = {}
    /\ callerBase # 0

\* The forbidden bound of the sign of delta.
ForbiddenBoundFor(read, delta) ==
    IF delta >= 0 THEN read.restriction.min_overflow_positive_delta
    ELSE read.restriction.max_underflow_negative_delta

\* The forbidden amount of a failed call: delta + base_delta for a positive
\* delta, |delta| - base_delta for a negative one.
ForbiddenAmount(base_delta, delta) ==
    IF delta >= 0 THEN delta + base_delta ELSE Abs(delta) - base_delta

\* C2 as stated: every call that returns false leaves the forbidden bound of
\* the sign of delta set, to a value <= max_value, in the captured
\* HistoryBounded entry.
C2_FalseRecordsForbidden ==
    [][\A delta \in Deltas :
         (/\ dfLast'.op = "try_add" /\ dfLast'.ret = "false"
          /\ \E answer \in TryAddAnswers(callerBase, delta, MaxValue) :
                 TryAdd(callerBase, delta, MaxValue, answer))
         => /\ dfRead'.kind = "HistoryBounded"
            /\ ForbiddenBoundFor(dfRead', delta) # None
            /\ \A d \in ForbiddenBoundFor(dfRead', delta) : d <= MaxValue]_vars

\* C2 amended: a call that returns false with |delta| <= max_value and no
\* captured Value read leaves a HistoryBounded entry whose forbidden bounds
\* are <= max_value; the bound of the sign of delta is set, to at most the
\* forbidden amount, when that amount is <= max_value, and the entry is left
\* as it was when the amount is above max_value.
C2_FalseRecordsForbiddenWithinLimit ==
    [][\A delta \in Deltas :
         (/\ dfLast'.op = "try_add" /\ dfLast'.ret = "false"
          /\ Abs(delta) <= MaxValue
          /\ dfRead.kind # "Value"
          /\ \E answer \in TryAddAnswers(callerBase, delta, MaxValue) :
                 TryAdd(callerBase, delta, MaxValue, answer))
         => /\ dfRead'.kind = "HistoryBounded"
            /\ \A d \in ForbiddenBounds(dfRead') : d <= MaxValue
            /\ ForbiddenAmount(callerBase, delta) <= MaxValue =>
                  /\ ForbiddenBoundFor(dfRead', delta) # None
                  /\ \A d \in ForbiddenBoundFor(dfRead', delta) :
                         d <= ForbiddenAmount(callerBase, delta)
            /\ ForbiddenAmount(callerBase, delta) > MaxValue => dfRead' = dfRead]_vars

\* A call with a base_delta that is not zero returned false and both
\* forbidden bounds are recorded.
C2_Witness ==
    /\ dfLast.op = "try_add" /\ dfLast.ret = "false"
    /\ dfRead.kind = "HistoryBounded"
    /\ dfRead.restriction.min_overflow_positive_delta # None
    /\ dfRead.restriction.max_underflow_negative_delta # None
    /\ callerBase # 0

\* C3 as stated: with a Value read of v captured, a call returns true iff
\* v + base_delta + delta is in [0, max_value], for every base_delta and
\* delta, and neither changes the captured reads nor reads the store.
C3_ValueSubsumesHistory ==
    [][\A base_delta \in Deltas, delta \in Deltas :
         (/\ dfRead.kind = "Value"
          /\ dfLast'.op = "try_add"
          /\ TryAdd(base_delta, delta, MaxValue, NoAnswer))
         => /\ dfLast'.ret = "true" <=>
                  (dfRead.value + base_delta + delta) \in 0..MaxValue
            /\ dfRead' = dfRead /\ dfFlags' = dfFlags
            /\ dfLast'.store_reads = 0]_vars

\* C3 amended: the same for every base_delta with v + base_delta in
\* [0, max_value]; for any other base_delta and |delta| <= max_value the call
\* returns a code invariant error (and still changes and reads nothing).
C3_ValueSubsumesHistoryInRange ==
    [][\A base_delta \in Deltas, delta \in Deltas :
         (/\ dfRead.kind = "Value"
          /\ dfLast'.op = "try_add"
          /\ TryAdd(base_delta, delta, MaxValue, NoAnswer))
         => /\ (dfRead.value + base_delta) \in 0..MaxValue =>
                  /\ dfLast'.ret \in {"true", "false"}
                  /\ dfLast'.ret = "true" <=>
                        (dfRead.value + base_delta + delta) \in 0..MaxValue
            /\ ((dfRead.value + base_delta) \notin 0..MaxValue
                    /\ Abs(delta) <= MaxValue) =>
                  dfLast'.ret = "CodeInvariantError"
            /\ dfRead' = dfRead /\ dfFlags' = dfFlags
            /\ dfLast'.store_reads = 0]_vars

\* With a Value read captured, a call returned true.
C3_Witness ==
    /\ dfRead.kind = "Value"
    /\ dfLast.op = "try_add" /\ dfLast.ret = "true"

(***************************************************************************)
(* Claims on the identifier generator.                                     *)
(***************************************************************************)

\* C4: after any sequence of generate_delayed_field_id calls,
\* validate_and_convert_delayed_field_id(id) accepts exactly the ids with
\* start_counter <= id < current counter, and rejects every other id with an
\* invariant error.
C4_ValidateAcceptsExactlyGenerated ==
    idLast.op = "validate" =>
        /\ idLast.ret \in {"Ok", "CodeInvariantError"}
        /\ idLast.ret = "Ok" <=>
               (start_counter <= idLast.id /\ idLast.id < idLast.current)

\* The identifiers returned so far, over all workers.
AllGenerated == UNION {{generated[w][i] : i \in 1..Len(generated[w])} : w \in Workers}
NumGenerated == LET RECURSIVE Sum(_)
                    Sum(S) == IF S = {} THEN 0
                              ELSE LET w == CHOOSE x \in S : TRUE
                                   IN Len(generated[w]) + Sum(S \ {w})
                IN Sum(Workers)

\* C5: whatever the interleaving of the workers' generate_delayed_field_id
\* calls on the shared counter, no two calls return the same identifier, every
\* returned identifier is at least start_counter and below the counter read at
\* any later time, and the counter equals start_counter plus the number of
\* completed calls; the sequential variant returns consecutive identifiers
\* from start_counter on.
C5_GeneratedIdsUnique ==
    /\ Cardinality(AllGenerated) = NumGenerated
    /\ \A id \in AllGenerated : start_counter <= id /\ id < counter
    /\ counter = start_counter + NumGenerated
    /\ variant = "Unsync" =>
          \A i \in 1..Len(generated[1]) : generated[1][i] = start_counter + i - 1

\* Two workers of the parallel variant have both generated identifiers.
C5_Witness ==
    /\ variant = "Sync"
    /\ Len(generated[1]) >= 1
    /\ Len(generated[2]) >= 2
    /\ counter = start_counter + MaxCalls

(***************************************************************************)
(* Claims on the exchange of values and identifiers.                       *)
(***************************************************************************)

\* C8: for a serialized value and its layout, replace_values_with_identifiers
\* succeeds, and replace_identifiers_with_values on the patched bytes
\* succeeds and yields the original bytes; both passes report the same set
\* of identifiers, which is empty, with the patched bytes equal to the input,
\* when the layout has no identifier-mapped leaf.
C8_IdentifierRoundTrip ==
    /\ (xPatch.op # "none" /\ xPatch.bytes_in \in BytesOf(xPatch.layout)) => xPatch.ok
    /\ xRestore.op # "none" =>
          /\ xRestore.ok
          /\ xRestore.bytes_out = xPatch.bytes_in
          /\ xRestore.ids = xPatch.ids
          /\ MappedLeaves(xPatch.layout) = {} =>
                (xPatch.ids = {} /\ xPatch.bytes_out = xPatch.bytes_in)

\* A value with two mapped leaves went through both passes, and the patched
\* bytes differ from the original ones.
C8_Witness ==
    /\ xRestore.op # "none"
    /\ Cardinality(xPatch.ids) = 2
    /\ xPatch.bytes_out # xPatch.bytes_in
    /\ xRestore.bytes_out = xPatch.bytes_in

(***************************************************************************)
(* Claims on the resource reads.                                           *)
(***************************************************************************)

\* The kind of the read worker w calls in this step.
KindAsked(w) == IF frame'[w].pc \in {"install", "set_base"} THEN frame'[w].kind ELSE resLast'.kind

\* C6: in the parallel variant, once a read of the key is captured at kind K
\* in an attempt, a later read of the attempt at a kind <= K returns the
\* captured read downcast to the kind asked, without fetching the map and
\* without changing the captured reads, whatever the map holds by then; a
\* read at a kind stronger than the captured one fetches the map.
C6_RepeatableReads ==
    [][\A w \in Workers :
          (frame[w].pc = "idle" /\ ResourceRead(w)) =>
              IF /\ data_reads[w].kind # "None"
                 /\ ReadKindRank(KindAsked(w)) <= ReadKindRank(data_reads[w].kind)
              THEN /\ frame'[w].pc = "idle"
                   /\ resLast'.w = w
                   /\ resLast'.queries = 0
                   /\ resLast'.result = from_data_read(TheOne(downcast(data_reads[w], resLast'.kind)))
                   /\ UNCHANGED <<data_reads, mv_data, counter>>
              ELSE IF frame'[w].pc \in {"install", "set_base"}
                   THEN frame'[w].queries >= 1
                   ELSE resLast'.w = w /\ resLast'.queries >= 1]_vars

\* A worker was answered Exists from the Metadata read it captured on the
\* raw entry, after the entry of the map became an exchanged one.
C6_Witness ==
    /\ variant = "Sync"
    /\ resLast.queries = 0
    /\ resLast.kind = "Exists"
    /\ data_reads[resLast.w].kind = "Metadata"
    /\ mv_data.tag = "Exchanged"

\* C7: once the entry of the key in the map is Exchanged(_, Some(L)), the
\* entry never changes again (it is neither patched again nor replaced),
\* and a Value read of any worker returns the layout L whatever layout it
\* asked for.
C7_LayoutPinning ==
    [][(mv_data.tag = "Exchanged" /\ mv_data.layout # None) =>
          /\ mv_data' = mv_data
          /\ (resLast'.kind = "Value" /\ resLast'.result.ret = "Value") =>
                 resLast'.result.layout = mv_data.layout]_vars

\* A Value read that asked for another layout returned the pinned one.
C7_Witness ==
    /\ mv_data.tag = "Exchanged"
    /\ mv_data.layout # None
    /\ resLast.kind = "Value"
    /\ resLast.result.ret = "Value"
    /\ resLast.layout.layout # None
    /\ resLast.layout.layout # mv_data.layout
    /\ resLast.result.layout = mv_data.layout

\* C9: in the parallel variant, once a worker has captured the size of the
\* group in an attempt, every later resource_group_size of the attempt
\* returns the captured size without a query of the map and leaves the
\* captured reads as they are, whatever size the map holds by then; the
\* captured size changes only when a new attempt starts, and no
\* capture_group_size is ever refused.
C9_GroupSizeCapturedOnce ==
    [][\A w \in Workers :
          /\ (group_reads[w].size # None /\ frame[w].pc = "idle" /\ ResourceGroupSize(w)) =>
                /\ resLast'.result = GroupReadSize(TheOne(group_reads[w].size))
                /\ resLast'.queries = 0
                /\ group_reads'[w] = group_reads[w]
          /\ (group_reads[w].size # None /\ group_reads'[w].size # group_reads[w].size) =>
                NewAttempt(w)
          /\ resLast'.result.ret # "AssertPanic"]_vars

\* A size call answered from the captured size while the map holds another size.
C9_Witness ==
    /\ resLast.kind = "GroupSize"
    /\ resLast.result.ret = "Size"
    /\ resLast.queries = 0
    /\ group_reads[resLast.w].size = resLast.result.value
    /\ mv_group.tag = "Group"
    /\ Some(mv_group.size) # resLast.result.value

\* The value the map holds was installed raw, or exchanged without a layout.
InstalledWithoutLayout(value) ==
    \/ value.tag \in {"NoEntry", "RawFromStorage"}
    \/ value.tag = "Exchanged" /\ value.layout = None

\* C10: is_delayed_field_optimization_capable holds exactly in the parallel
\* variant and in the sequential variant with
\* dynamic_change_set_optimizations_enabled; while it does not hold, every
\* read of the resource and of the group passes no layout inward, the
\* counter stays at start_counter, no delayed field is registered, every
\* installed value is raw or exchanged without a layout, and both read sets
\* of the sequential variant are empty.
C10_OptimizationGate ==
    /\ is_delayed_field_optimization_capable <=>
          (variant = "Sync" \/ (variant = "Unsync" /\ enabled))
    /\ ~is_delayed_field_optimization_capable =>
          /\ resLast.inward.layout = None
          /\ counter = start_counter
          /\ DOMAIN delayed_fields = {}
          /\ InstalledWithoutLayout(mv_data)
          /\ InstalledWithoutLayout(mv_group_meta)
          /\ mv_group.tag = "Group" =>
                \A t \in DOMAIN mv_group.entries : InstalledWithoutLayout(mv_group.entries[t])
          /\ resource_with_layout_read_set = {}
          /\ group_read_set = {}

\* With the optimization off, the resource and the tag were installed
\* exchanged, and the last read gave a layout and got the stored bytes back.
C10_Witness ==
    /\ ~is_delayed_field_optimization_capable
    /\ mv_data = Exchanged(Some(StoredBytes), None)
    /\ mv_group.tag = "Group"
    /\ "A" \in DOMAIN mv_group.entries
    /\ mv_group.entries["A"] = Exchanged(Some(StoredBytes), None)
    /\ resLast.layout.layout # None
    /\ resLast.result = ReadValue(Some(StoredBytes), None)

\* The result of the last read is one of a read of the resource.
ResourceCall == resLast.kind \in {"Value", "Metadata", "Exists"}

\* C11: a call of get_resource_state_value_impl reads base_view at most
\* once, and only after its first cached lookup; unless
\* get_base_value_with_layout fails (the call then returns the error), it
\* installs the base value and makes exactly one more cached lookup, which
\* never returns Uninitialized (the unreachable branch is not taken); a call
\* that did not read storage made one lookup; and a worker that has read
\* storage and installed its base value finds an entry in the map.
C11_ReadPipeline ==
    /\ ResourceCall =>
          /\ resLast.base_reads \in {0, 1}
          /\ resLast.lookups \in {1, 2}
          /\ resLast.base_reads = 0 => resLast.lookups = 1
          /\ resLast.lookups = 2 => resLast.base_reads = 1
          /\ (resLast.base_reads = 1 /\ resLast.lookups = 1) =>
                resLast.result = ReadError
          /\ resLast.result.ret \notin {"Uninitialized", "Panic"}
    /\ \A w \in Workers :
          /\ frame[w].pc \in {"install", "set_base"} => frame[w].base_reads \in {0, 1}
          /\ frame[w].pc = "set_base" => (frame[w].second /\ frame[w].base_reads = 1)
          /\ (frame[w].pc = "install" /\ frame[w].second) =>
                (frame[w].base_reads = 1 /\ mv_data.tag # "NoEntry")

\* A read that found the key uninitialised read storage once, made its second
\* lookup on an entry another worker had exchanged meanwhile, and returned it.
C11_Witness ==
    /\ variant = "Sync"
    /\ resLast.kind = "Metadata"
    /\ resLast.base_reads = 1
    /\ resLast.lookups = 2
    /\ resLast.result.ret = "Metadata"
    /\ mv_data.tag = "Exchanged"

\* C12: wait_for_dependency returns true iff the dependency ended Resolved.
\* When the scheduler answers Resolved or ExecutionHalted the call returns
\* at once, true and false, without waiting; when it answers with a
\* condition, the call returns only in a step taken under the mutex with a
\* status that is not Unresolved, and it returns true iff that status is
\* Resolved, whatever the order of the scheduler's and the waiter's steps.
C12_WaitReturnsResolved ==
    [][\A i \in Txns :
          /\ (wait_pc[i] # "none" /\ wait_pc'[i] = "none") =>
                /\ dep_lock[i] = "waiter"
                /\ dep_resolved[i] \in {"Resolved", "ExecutionHalted"}
                /\ wait_last'[i].result = "Dependency"
                /\ wait_last'[i].observed = dep_resolved[i]
                /\ wait_last'[i].ret = (dep_resolved[i] = "Resolved")
          /\ (wait_last'[i].call # wait_last[i].call /\ wait_pc'[i] = "none") =>
                /\ wait_last'[i].result \in {"Resolved", "ExecutionHalted"}
                /\ wait_last'[i].ret = (wait_last'[i].result = "Resolved")
                /\ ~wait_last'[i].blocked
          /\ (wait_last'[i].call # wait_last[i].call /\ wait_pc'[i] # "none") =>
                /\ wait_last'[i].result = "Dependency"
                /\ dep_resolved'[i] = "Unresolved"
          /\ wait_pc'[i] = "parked" => dep_lock'[i] # "waiter"
    ]_vars

\* A waiter that waited on the condition variable and returned false after
\* the block was halted.
C12_Witness ==
    \E i \in Txns :
        /\ wait_pc[i] = "none"
        /\ wait_last[i].result = "Dependency"
        /\ wait_last[i].blocked
        /\ wait_last[i].observed = "ExecutionHalted"
        /\ ~wait_last[i].ret

\* C13: no deadlock on dependency waits.  Every transaction waits only for
\* a lower one, and the scheduler resolves or halts every dependency, so
\* under fairness every transaction inside wait_for_dependency leaves it.
C13_NoDeadlockOnWaits ==
    \A i \in Txns : (wait_pc[i] # "none") ~> (wait_pc[i] = "none")

\* All transactions that can wait are waiting on their condition variables
\* at once, one of them for another waiter.
C13_Witness ==
    /\ \A i \in Txns \ {1} : wait_pc[i] = "parked"
    /\ \E i \in Txns : dep_idx[i] # 0 /\ wait_pc[dep_idx[i]] = "parked"

\* C14: when workers race to upgrade the base entry of a key, one patched
\* value ends installed as the Exchanged base entry and is never replaced;
\* every Value read a worker captures, and every value a Value read returns,
\* is the installed one (a worker whose install lost takes the winner's
\* value at its next fetch, not the bytes and identifiers it patched).
C14_OneExchangedInstall ==
    [][/\ (variant = "Sync" /\ mv_data.tag = "Exchanged") => mv_data' = mv_data
       /\ variant' = "Sync" =>
             /\ \A w \in Workers :
                   data_reads'[w].kind = "Value" =>
                      /\ mv_data'.tag = "Exchanged"
                      /\ data_reads'[w].v = mv_data'.v
                      /\ data_reads'[w].layout = mv_data'.layout
             /\ (resLast'.kind = "Value" /\ resLast'.result.ret = "Value") =>
                   /\ mv_data'.tag = "Exchanged"
                   /\ resLast'.result.value = mv_data'.v
                   /\ resLast'.result.layout = mv_data'.layout
    ]_vars

\* Two workers patched the raw value of the key, each with its own
\* identifier; the one that returned last went through the upgrade of the
\* fetched raw entry, and both hold the one installed value.
C14_Witness ==
    /\ variant = "Sync"
    /\ counter = start_counter + 2
    /\ mv_data.tag = "Exchanged" /\ mv_data.v # None /\ mv_data.layout # None
    /\ resLast.kind = "Value" /\ resLast.result.ret = "Value"
    /\ resLast.base_reads = 0 /\ resLast.queries = 2
    /\ \A w \in Workers : frame[w].pc = "idle" /\ data_reads[w].kind = "Value"
                          /\ data_reads[w].v = mv_data.v

\* C15 as stated: with a HistoryBounded read captured, a get_value that is
\* answered a value other than the recorded inner_aggregator_value returns
\* InconsistentRead and leaves the captured entry as it was.
C15_ChangedValueIsInconsistent ==
    [][\A answer \in AnswersOf({"Ok"}) :
         (/\ dfRead.kind = "HistoryBounded"
          /\ answer.value # dfRead.inner_aggregator_value
          /\ GetValueWith(answer))
         => /\ dfLast'.ret = "InconsistentRead"
            /\ dfRead' = dfRead]_vars

\* C15 amended: the read is inconsistent when the recorded history does not
\* hold at the value the store returns (an achieved delta leaves
\* [0, max_value], or a forbidden delta fits): then get_value returns
\* InconsistentRead, marks the speculative failure and leaves the
\* HistoryBounded entry.  A value under which the history holds, equal to
\* inner_aggregator_value or not, is returned and captured as a Value read.
C15_BrokenHistoryIsInconsistent ==
    [][\A answer \in AnswersOf({"Ok"}) :
         (/\ dfRead.kind = "HistoryBounded"
          /\ GetValueWith(answer))
         => IF validate_against_base_value(dfRead.restriction, answer.value, dfRead.max_value)
            THEN /\ dfLast'.ret = "Ok" /\ dfLast'.value = answer.value
                 /\ dfRead' = ValueRead(answer.value)
            ELSE /\ dfLast'.ret = "InconsistentRead"
                 /\ dfRead' = dfRead
                 /\ dfFlags'.speculative_failure]_vars

\* A history recorded at one value; the store then returned a higher value,
\* at which the achieved delta overflows, and get_value returned the error.
C15_Witness ==
    /\ dfLast.op = "get_value" /\ dfLast.ret = "InconsistentRead"
    /\ dfRead.kind = "HistoryBounded"
    /\ dfLast.observed # None
    /\ \A v \in dfLast.observed :
          /\ v > dfRead.inner_aggregator_value
          /\ ~validate_against_base_value(dfRead.restriction, v, dfRead.max_value)

\* The number of identifier-mapped leaves of the layout before position i.
MappedBefore(layout, i) == Cardinality({j \in MappedLeaves(layout) : j < i})

\* C16: replace_values_with_identifiers allocates one fresh identifier per
\* identifier-mapped leaf, in traversal order from the current counter on,
\* advances the counter by the number of identifiers it allocated and
\* registers the original value of each leaf as the base value of its
\* identifier; a call that fails at a leaf has done so for the mapped leaves
\* before it.  replace_identifiers_with_values allocates no identifier and
\* leaves the counter and the registered values as they are.
C16_OneIdentifierPerMappedLeaf ==
    [][/\ ReplaceValuesWithIdentifiers =>
             /\ xPatch'.ids = counter..(counter' - 1)
             /\ counter' - counter <= Cardinality(MappedLeaves(xPatch'.layout))
             /\ \A id \in DOMAIN delayed_fields : id \notin xPatch'.ids
             /\ \A id \in DOMAIN delayed_fields' :
                   id \notin xPatch'.ids =>
                      (id \in DOMAIN delayed_fields /\ delayed_fields'[id] = delayed_fields[id])
             /\ \A i \in MappedLeaves(xPatch'.layout) :
                   LET id == counter + MappedBefore(xPatch'.layout, i)
                   IN id < counter' =>
                         /\ id \in DOMAIN delayed_fields'
                         /\ delayed_fields'[id] = [kind |-> xPatch'.layout[i].mapping,
                                                   v |-> xPatch'.bytes_in[i].v]
             /\ xPatch'.ok =>
                   /\ counter' - counter = Cardinality(MappedLeaves(xPatch'.layout))
                   /\ \A i \in 1..Len(xPatch'.layout) :
                         xPatch'.bytes_out[i].v =
                            IF i \in MappedLeaves(xPatch'.layout)
                            THEN counter + MappedBefore(xPatch'.layout, i)
                            ELSE xPatch'.bytes_in[i].v
       /\ ReplaceIdentifiersWithValues =>
             /\ counter' = counter
             /\ delayed_fields' = delayed_fields
    ]_vars

\* A value with two mapped leaves was patched after an earlier call had
\* advanced the counter, and restored.
C16_Witness ==
    /\ xPatch.op # "none" /\ xPatch.ok
    /\ Cardinality(xPatch.ids) = 2
    /\ start_counter \notin xPatch.ids
    /\ \A id \in xPatch.ids : id < counter /\ id \in DOMAIN delayed_fields
    /\ xRestore.op # "none" /\ xRestore.ok

\* The tags of the blob storage holds for the group.
StoredTags == IF group_base_view.v = None THEN {} ELSE DOMAIN TheOne(group_base_view.v)

\* The state value of the group key with its metadata and no bytes.
metadata_only(v) == IF v = None THEN None ELSE Some(<< >>)

\* The contents of the group are the ones seeded from storage: one entry
\* per tag of the blob, holding the bytes of the tag, raw or exchanged; the
\* entry of the group key holds the whole state value of storage.
SeededFromStorage ==
    /\ group_base_view.ok
    /\ mv_group.tag = "Group"
    /\ DOMAIN mv_group.entries = StoredTags
    /\ \A t \in StoredTags :
          \/ mv_group.entries[t] = RawFromStorage(Some(TheOne(group_base_view.v)[t]))
          \/ mv_group.entries[t].tag = "Exchanged"
    /\ mv_group_meta = RawFromStorage(group_base_view.v)

\* What holds of the materialization of a group: a call of
\* resource_group_size or get_resource_from_group that finds
\* the group Uninitialized reads the blob of storage once, installs one
\* entry per (tag, bytes) pair of the blob (none without a blob) and the
\* RawFromStorage entry of the group key, and looks up once more; the second
\* lookup never returns Uninitialized, and what it returns comes from the
\* seeded contents: the size of the decoded group; None for a tag the blob
\* does not have; for a tag it has, the value installed for the tag, which
\* is the bytes of the tag when no layout is passed inward.
GroupMaterialization ==
    /\ (mv_group.tag = "Group" \/ mv_group_meta.tag # "NoEntry") => SeededFromStorage
    /\ \A w \in Workers :
          frame[w].pc = "g_init" =>
             (frame[w].base_reads = 1 /\ frame[w].second /\ group_base_view.ok)
    /\ resLast.kind \in {"GroupSize", "GroupValue"} =>
          /\ resLast.base_reads \in {0, 1}
          /\ resLast.result.ret \notin {"Uninitialized", "Panic"}
          /\ resLast.lookups = 2 =>
                /\ resLast.base_reads = 1
                /\ SeededFromStorage
                /\ resLast.result.ret = "Size" =>
                      resLast.result.value =
                         Some(IF StoredTags = {} THEN 0 ELSE GroupSizeOf(TheOne(group_base_view.v)))
                /\ resLast.result.ret = "Value" =>
                      IF resLast.tag \notin StoredTags
                      THEN resLast.result.value = None
                      ELSE /\ resLast.result.value = mv_group.entries[resLast.tag].v
                           /\ resLast.inward.layout = None =>
                                 resLast.result.value = Some(TheOne(group_base_view.v)[resLast.tag])
          /\ (resLast.lookups = 1 /\ resLast.base_reads = 1) =>
                (~group_base_view.ok /\ resLast.result = ReadError /\ mv_group.tag = "NoEntry")

\* C17: a call of resource_group_size or get_resource_from_group that finds
\* the group Uninitialized reads the blob of storage once, installs one
\* entry per (tag, bytes) pair of the blob and a RawFromStorage entry of the
\* group key that carries only the metadata, and its second lookup returns
\* a result from the seeded contents and never Uninitialized.
C17_GroupMaterialization ==
    /\ GroupMaterialization
    /\ mv_group_meta.tag # "NoEntry" =>
          mv_group_meta = RawFromStorage(metadata_only(group_base_view.v))

\* A call found the group Uninitialized, seeded it from the blob of storage
\* and returned the bytes of the tag from its second lookup; the entry of
\* the group key holds the blob.
C17_EntryHoldsBlob ==
    /\ resLast.kind = "GroupValue"
    /\ resLast.lookups = 2 /\ resLast.base_reads = 1
    /\ resLast.tag \in StoredTags
    /\ resLast.result = ReadValue(Some(TheOne(group_base_view.v)[resLast.tag]), None)
    /\ mv_group_meta = RawFromStorage(group_base_view.v)
    /\ mv_group_meta # RawFromStorage(metadata_only(group_base_view.v))

\* The last read is a Value read that returned an existing value with a layout.
ReturnedValueWithLayout(last) ==
    /\ last.kind = "Value"
    /\ last.result.ret = "Value"
    /\ last.result.value # None
    /\ last.result.layout # None

\* C18: in the sequential variant the key is in
\* resource_with_layout_read_set iff a Value read of the key of the view
\* returned an existing value with a layout: a read adds the key exactly
\* when it is such a read (a read of a missing key, a Metadata or Exists
\* read, a Value read that returns no layout, and a failed read add
\* nothing), and no read removes it; only a new view starts from the empty
\* set.
C18_ReadSetIffValueWithLayout ==
    [][variant = "Unsync" =>
          /\ SequentialResourceRead =>
                resource_with_layout_read_set' =
                   resource_with_layout_read_set \cup
                      (IF ReturnedValueWithLayout(resLast') THEN {"key"} ELSE {})
          /\ resource_with_layout_read_set' # resource_with_layout_read_set =>
                \/ SequentialResourceRead
                \/ NewAttempt(1) /\ resource_with_layout_read_set' = {}
          /\ "key" \in resource_with_layout_read_set' =>
                /\ mv_data'.tag = "Exchanged"
                /\ mv_data'.v # None
                /\ mv_data'.layout # None
    ]_vars

\* The key is in the read set after a Value read with a layout, and the
\* last read, an Exists read, left it there.
C18_Witness ==
    /\ variant = "Unsync"
    /\ resource_with_layout_read_set = {"key"}
    /\ resLast.kind = "Exists"
    /\ resLast.result.ret = "Exists"

\* The identifiers that stand in the mapped leaves of exchanged bytes.
EmbeddedIdentifiers(value, maybe_layout) ==
    {TheOne(value)[i].v : i \in MappedLeaves(TheOne(maybe_layout))}

\* The read of the key in the attempt, if it is a value with a layout:
\* the captured read in the parallel variant, the entry of the map for a
\* key of the read set in the sequential one.
ValueReadWithLayout ==
    IF variant = "Sync"
    THEN IF data_reads[1].kind = "Value" /\ data_reads[1].layout # None /\ data_reads[1].v # None
         THEN {[value |-> data_reads[1].v, layout |-> data_reads[1].layout]} ELSE {}
    ELSE IF /\ "key" \in resource_with_layout_read_set
            /\ mv_data.tag = "Exchanged" /\ mv_data.layout # None /\ mv_data.v # None
         THEN {[value |-> mv_data.v, layout |-> mv_data.layout]} ELSE {}

\* C19: get_reads_needing_exchange(delayed_write_set_keys, skip) returns
\* the map that holds the key exactly when the key is not in skip, its read
\* in the attempt is a value with bytes and a layout, and the identifiers in
\* the value meet delayed_write_set_keys, mapped to that value and layout;
\* it returns no error.
C19_ReadsNeedingExchange ==
    needs_last.op = "get_reads_needing_exchange" =>
       /\ needs_last.ok
       /\ needs_last.map =
             {[key |-> "key", entry |-> r] :
                 r \in {x \in ValueReadWithLayout :
                           /\ "key" \notin needs_last.skip
                           /\ EmbeddedIdentifiers(x.value, x.layout) \cap needs_last.keys # {}}}

\* The key was read with a layout, its value holds an identifier the
\* transaction wrote to among others, and the call returned it.
C19_Witness ==
    /\ needs_last.op = "get_reads_needing_exchange"
    /\ needs_last.map # {}
    /\ Cardinality(needs_last.keys) = 1
    /\ start_counter = 1
    /\ needs_last.skip = {}

\* The inner reads of the group in the attempt that are values with bytes
\* and a layout: the captured reads of the tags in the parallel variant,
\* the tags the sequential thread read in the attempt, with the values the
\* map holds for them.
InnerReadsWithLayout ==
    IF variant = "Sync"
    THEN {[value |-> group_reads[1].tags[t].v, layout |-> group_reads[1].tags[t].layout] :
             t \in {u \in Tags : /\ group_reads[1].tags[u].kind = "Value"
                                 /\ group_reads[1].tags[u].v # None
                                 /\ group_reads[1].tags[u].layout # None}}
    ELSE {[value |-> mv_group.entries[t].v, layout |-> mv_group.entries[t].layout] :
             t \in {u \in tags_read : /\ mv_group.entries[u].tag = "Exchanged"
                                      /\ mv_group.entries[u].v # None
                                      /\ mv_group.entries[u].layout # None}}

\* What the claim asks of a call that returned, for the inner reads of the
\* attempt before it.
GroupNeedsAsClaimed(inner, last, size) ==
    IF "group" \in last.skip
          \/ \A r \in inner : EmbeddedIdentifiers(r.value, r.layout) \cap last.keys = {}
    THEN last.ok /\ last.map = {}
    ELSE IF last.metadata = "Some" /\ last.size = "Size"
    THEN /\ last.ok
         /\ Cardinality(last.map) = 1
         /\ \A e \in last.map :
               /\ e.key = "group"
               /\ e.entry.op.kind = "Modification"
               /\ e.entry.op.metadata = "metadata"
               /\ e.entry.size = size
    ELSE ~last.ok /\ last.err = "CodeInvariantError" /\ last.map = {}

\* C20: get_group_reads_needing_exchange(delayed_write_set_keys, skip)
\* returns the map that holds the group key exactly when the key is not in
\* skip and one of its inner reads of the attempt has a layout and
\* identifiers that meet delayed_write_set_keys, mapped to the modification
\* made of the metadata of the group and to the size of the group; when the
\* metadata or the size of such a group cannot be read it returns a code
\* invariant error and no map.
C20_GroupReadsNeedingExchange ==
    [][GetGroupReadsNeedingExchange =>
          GroupNeedsAsClaimed(InnerReadsWithLayout, needs_last', mv_group.size)]_vars

\* C20 in the parallel variant alone, where the inner reads are the
\* captured ones.
C20_ParallelGroupReadsNeedingExchange ==
    [][(GetGroupReadsNeedingExchange /\ variant = "Sync") =>
          GroupNeedsAsClaimed(InnerReadsWithLayout, needs_last', mv_group.size)]_vars

\* The sequential thread read one tag in the attempt, and the call returned
\* the group for an identifier that stands in the other tag only.
C20_ReturnedForAnotherTag ==
    /\ variant = "Unsync"
    /\ needs_last.op = "get_group_reads_needing_exchange"
    /\ needs_last.map # {}
    /\ \A r \in InnerReadsWithLayout :
          EmbeddedIdentifiers(r.value, r.layout) \cap needs_last.keys = {}

(***************************************************************************)
(* Claims on the validation of identifiers and on the contract of the      *)
(* delayed-field engine.                                                   *)
(***************************************************************************)

\* C21: validate_and_convert_delayed_field_id(id) returns a code invariant
\* error if id < start_counter or id > the counter, and the identifier of
\* id otherwise; it leaves the counter as it is, and it accepts every
\* identifier generate_delayed_field_id has returned before the call.
C21_ValidateBounds ==
    [][\A id \in Ids :
         validate_and_convert_delayed_field_id(id) =>
            /\ idLast'.ret = IF id < start_counter \/ id > counter
                             THEN "CodeInvariantError" ELSE "Ok"
            /\ idLast'.id = id
            /\ counter' = counter
            /\ generated' = generated
            /\ id \in AllGenerated => idLast'.ret = "Ok"]_vars

\* An identifier generated two calls of generate_delayed_field_id ago was
\* validated and accepted.
C21_Witness ==
    /\ idLast.op = "validate"
    /\ idLast.ret = "Ok"
    /\ idLast.id \in AllGenerated
    /\ idLast.current > idLast.id + 1
    /\ start_counter > 0

\* C22: for one worker, an aggregator whose value in the store is v, and
\* a caller that starts with base_delta = 0 and adds delta to it after
\* every true result, a call of delayed_field_try_add_delta_outcome returns,
\* in the parallel variant as in the sequential one, true exactly when
\* v + base_delta + delta is in [0, max_value], and false otherwise: the
\* two variants return the same result at every call of a sequence.
C22_SameContract ==
    [][\A delta \in Deltas :
         TryAddDeltaOutcomeOf(delta) =>
            /\ (delayed_fields[TheId].v + callerBase) \in 0..MaxValue
            /\ dfLast'.ret =
                  BoolRet((delayed_fields[TheId].v + callerBase + delta) \in 0..MaxValue)
            /\ variant = "Unsync" => dfRead' = NoRead
            /\ variant = "Sync" =>
                  (Abs(delta) <= MaxValue =>
                      /\ dfRead'.kind = "HistoryBounded"
                      /\ dfRead'.inner_aggregator_value = delayed_fields[TheId].v)]_vars

\* The parallel variant answered from its history, with a base_delta that
\* is not zero, a call that fails, after calls of both signs succeeded.
C22_Witness ==
    /\ variant = "Sync"
    /\ dfLast.op = "try_add" /\ dfLast.ret = "false" /\ dfLast.store_reads = 0
    /\ callerBase # 0
    /\ dfRead.kind = "HistoryBounded"
    /\ dfRead.restriction.max_achieved_positive_delta > 0
    /\ dfRead.restriction.min_achieved_negative_delta > 0

\* C23: after any sequence of try-add-delta calls, with any base_delta, the
\* captured HistoryBounded entry has its achieved deltas within the bounds
\* (inner - min_achieved_negative_delta >= 0 and
\* inner + max_achieved_positive_delta <= max_value) and each forbidden
\* bound that is set strictly beyond the achieved delta of its sign.
C23_DeltaHistoryInvariant ==
    dfRead.kind = "HistoryBounded" =>
       /\ dfRead.inner_aggregator_value - dfRead.restriction.min_achieved_negative_delta >= 0
       /\ dfRead.inner_aggregator_value + dfRead.restriction.max_achieved_positive_delta
             <= dfRead.max_value
       /\ \A d \in dfRead.restriction.min_overflow_positive_delta :
             d > dfRead.restriction.max_achieved_positive_delta
       /\ \A d \in dfRead.restriction.max_underflow_negative_delta :
             d > dfRead.restriction.min_achieved_negative_delta

\* Deltas of both signs were achieved and deltas of both signs are forbidden.
C23_Witness ==
    /\ dfRead.kind = "HistoryBounded"
    /\ dfRead.restriction.max_achieved_positive_delta > 0
    /\ dfRead.restriction.min_achieved_negative_delta > 0
    /\ dfRead.restriction.min_overflow_positive_delta # None
    /\ dfRead.restriction.max_underflow_negative_delta # None
    /\ dfLast.op = "try_add"

\* C24: a module read of the parallel view appends the key it reads to the
\* captured module reads whatever the map answers, leaves every dependency
\* wait as it was, answers a dependency with Ok(None) without reading
\* storage, and answers NotFound with what storage returns.
C24_ParallelModuleRead ==
    [][\A state_key \in ModuleKeys, fetch \in ModuleAnswers, storage \in ModuleStorages :
          (variant = "Sync" /\ GetModuleStateValueWith(state_key, fetch, storage)) =>
             /\ module_reads' = Append(module_reads, state_key)
             /\ UNCHANGED depVars
             /\ fetch.tag = "Dependency" =>
                   /\ module_last'.ret = "Ok"
                   /\ module_last'.value = None
                   /\ module_last'.storage_reads = 0
             /\ fetch.tag = "NotFound" =>
                   /\ module_last'.storage_reads = 1
                   /\ module_last'.value = storage.v
                   /\ module_last'.ret = IF storage.ok THEN "Ok" ELSE "Err"]_vars
\* Two reads of different keys were captured, and the second one was
\* answered Ok(None) for a dependency.
C24_Witness ==
    /\ variant = "Sync"
    /\ module_last.fetch = "Dependency"
    /\ module_last.ret = "Ok"
    /\ Len(module_reads) = 2
    /\ module_reads[1] # module_reads[2]

(***************************************************************************)
(* Claims on the updates of the history by a call of the engine.  In each  *)
(* of them base_delta is a delta the aggregator can be at, that is         *)
(* inner_aggregator_value + base_delta is in [0, max_value]: line 228      *)
(* turns any other base_delta into a code invariant error.                 *)
(***************************************************************************)
InBounds(v) == v \in 0..MaxValue
\* The bound of an Option after `d` was recorded in it.
MinRecorded(prev, d) == IF prev = None THEN Some(d) ELSE Some(MinOf(TheOne(prev), d))

\* C25: in every state with a HistoryBounded entry captured, the call of
\* the engine with any base_delta and delta (TryAddDeltaAny makes each of
\* them) returns true when inner + base_delta + delta is in [0, max_value],
\* and a call that returns true sets, with new_delta = base_delta + delta, the achieved
\* delta of the sign of new_delta to the larger of its previous value and
\* |new_delta|, leaving the rest of the history, inner_aggregator_value and
\* max_value as they were.
C25_SuccessUpdatesHistory ==
    dfRead.kind = "HistoryBounded" =>
       \A base_delta \in Deltas, delta \in Deltas :
          LET r == delayed_field_try_add_delta_outcome_impl(
                       dfRead, dfFlags, 0, base_delta, delta, MaxValue, "Ok", 0)
              inner == dfRead.inner_aggregator_value
              h == dfRead.restriction
              new_delta == base_delta + delta
          IN /\ (InBounds(inner + base_delta) /\ InBounds(inner + new_delta))
                    => r.ret = "true"
             /\ r.ret = "true" =>
                   /\ InBounds(inner + new_delta)
                   /\ r.read = HistoryBounded(
                         IF new_delta > 0
                         THEN [h EXCEPT !.max_achieved_positive_delta =
                                            MaxOf(@, new_delta)]
                         ELSE IF new_delta < 0
                         THEN [h EXCEPT !.min_achieved_negative_delta =
                                            MaxOf(@, -new_delta)]
                         ELSE h,
                         dfRead.max_value, inner)

\* A call on a captured entry returned true after deltas of both signs
\* were achieved and deltas of both signs were refused.
C25_Witness ==
    /\ dfRead.kind = "HistoryBounded"
    /\ dfLast.op = "try_add" /\ dfLast.ret = "true" /\ dfLast.store_reads = 0
    /\ dfRead.restriction.max_achieved_positive_delta > 1
    /\ dfRead.restriction.min_achieved_negative_delta > 0
    /\ dfRead.restriction.min_overflow_positive_delta # None

\* The value the history is about in a call: the one of the captured entry,
\* or the one the store answers when nothing is captured.
InnerOf(answer) ==
    IF dfRead.kind = "HistoryBounded" THEN dfRead.inner_aggregator_value ELSE answer.value
HistoryOf(read) == IF read.kind = "HistoryBounded" THEN read.restriction ELSE NewHistory
\* The calls C26 and C27 are about: no Value read is captured, the store
\* answers a value when it is read, |delta| <= max_value.
HistoryCall(base_delta, delta, answer) ==
    /\ dfRead.kind # "Value"
    /\ dfLast'.op = "try_add"
    /\ dfRead.kind = "None" => base_delta = 0
    /\ answer.outcome = "Ok"
    /\ Abs(delta) <= MaxValue
    /\ InBounds(InnerOf(answer) + base_delta)
    /\ TryAdd(base_delta, delta, MaxValue, answer)

\* C26: a positive delta <= max_value with inner + base_delta + delta >
\* max_value returns false; min_overflow_positive_delta becomes the smaller
\* of its previous value and delta + base_delta when that sum is <=
\* max_value and nothing is recorded otherwise; the achieved deltas and
\* max_underflow_negative_delta are unchanged.
C26_OverflowUpdatesHistory ==
    [][\A base_delta \in Deltas, delta \in 0..MaxValue :
         \A answer \in TryAddAnswers(base_delta, delta, MaxValue) :
            (/\ InnerOf(answer) + base_delta + delta > MaxValue
             /\ HistoryCall(base_delta, delta, answer))
            => LET h == HistoryOf(dfRead) IN
               /\ dfLast'.ret = "false"
               /\ dfRead' = HistoryBounded(
                     IF delta + base_delta <= MaxValue
                     THEN [h EXCEPT !.min_overflow_positive_delta =
                                        MinRecorded(@, delta + base_delta)]
                     ELSE h,
                     MaxValue, InnerOf(answer))]_vars

\* A call on a captured entry returned false and only overflows are
\* recorded, after deltas of both signs were achieved.
C26_Witness ==
    /\ dfRead.kind = "HistoryBounded"
    /\ dfLast.op = "try_add" /\ dfLast.ret = "false" /\ dfLast.store_reads = 0
    /\ dfRead.restriction.min_overflow_positive_delta # None
    /\ dfRead.restriction.max_underflow_negative_delta = None
    /\ dfRead.restriction.max_achieved_positive_delta > 0
    /\ dfRead.restriction.min_achieved_negative_delta > 0

\* C27: a negative delta of magnitude v <= max_value with
\* inner + base_delta - v < 0 returns false; max_underflow_negative_delta
\* becomes the smaller of its previous value and v - base_delta when that
\* amount is <= max_value; the achieved deltas and
\* min_overflow_positive_delta are unchanged.
C27_UnderflowUpdatesHistory ==
    [][\A base_delta \in Deltas, delta \in (-MaxValue)..(-1) :
         \A answer \in TryAddAnswers(base_delta, delta, MaxValue) :
            (/\ InnerOf(answer) + base_delta + delta < 0
             /\ HistoryCall(base_delta, delta, answer))
            => LET h == HistoryOf(dfRead)
                   v == -delta
               IN
               /\ dfLast'.ret = "false"
               /\ dfRead' = HistoryBounded(
                     IF v - base_delta <= MaxValue
                     THEN [h EXCEPT !.max_underflow_negative_delta =
                                        MinRecorded(@, v - base_delta)]
                     ELSE h,
                     MaxValue, InnerOf(answer))]_vars

\* A call on a captured entry returned false and only underflows are
\* recorded, after deltas of both signs were achieved.
C27_Witness ==
    /\ dfRead.kind = "HistoryBounded"
    /\ dfLast.op = "try_add" /\ dfLast.ret = "false" /\ dfLast.store_reads = 0
    /\ dfRead.restriction.max_underflow_negative_delta # None
    /\ dfRead.restriction.min_overflow_positive_delta = None
    /\ dfRead.restriction.max_achieved_positive_delta > 0
    /\ dfRead.restriction.min_achieved_negative_delta > 0

(***************************************************************************)
(* Claims on the early returns of the engine.                              *)
(***************************************************************************)
\* C28: a call with |delta| > max_value returns false whatever is captured
\* and whatever base_delta is, reads the store not once (so it waits on no
\* dependency) and leaves the captured reads and their flags as they were.
C28_BeyondBoundReturnsFalse ==
    [][\A base_delta \in Deltas, delta \in {-(MaxValue + 1), MaxValue + 1} :
         (/\ dfLast'.op = "try_add"
          /\ TryAdd(base_delta, delta, MaxValue, NoAnswer))
         => /\ dfLast'.ret = "false"
            /\ dfLast'.store_reads = 0
            /\ dfRead' = dfRead
            /\ dfFlags' = dfFlags
            /\ UNCHANGED depVars]_vars

\* A call returned false and nothing is captured: every other call that
\* returns false captures an entry.
C28_Witness ==
    /\ dfLast.op = "try_add" /\ dfLast.ret = "false" /\ dfLast.store_reads = 0
    /\ dfRead = NoRead

\* C29: with a HistoryBounded entry captured with one limit, a call with
\* another limit (and |delta| within it) returns a code invariant error and
\* leaves the captured entry as it was.
C29_DifferentLimitsError ==
    [][\A max_value \in Limits, base_delta \in Deltas, delta \in Deltas :
         (/\ dfRead.kind = "HistoryBounded"
          /\ dfRead.max_value # max_value
          /\ Abs(delta) <= max_value
          /\ dfLast'.op = "try_add"
          /\ TryAdd(base_delta, delta, max_value, NoAnswer))
         => /\ dfLast'.ret = "CodeInvariantError"
            /\ dfLast'.store_reads = 0
            /\ dfRead' = dfRead]_vars

\* A call returned a code invariant error on a captured entry of the
\* smaller limit that had accepted and refused deltas.
C29_Witness ==
    /\ dfLast.op = "try_add" /\ dfLast.ret = "CodeInvariantError"
    /\ dfRead.kind = "HistoryBounded"
    /\ dfRead.max_value = MaxValue - 1
    /\ dfRead.restriction.max_achieved_positive_delta > 0
    /\ dfRead.restriction.min_overflow_positive_delta # None

\* C30: with nothing captured and |delta| <= max_value, a call with a
\* base_delta other than zero returns a code invariant error, reads the
\* store not once and captures nothing; a call with base_delta zero reads
\* the store and, when the store answers a value, captures a HistoryBounded
\* entry of the limit whose inner_aggregator_value is the value answered,
\* returning whether that value plus delta is within the bounds.
C30_FirstCall ==
    [][\A base_delta \in Deltas, delta \in (-MaxValue)..MaxValue :
         \A answer \in TryAddAnswers(base_delta, delta, MaxValue) :
            (/\ dfRead = NoRead
             /\ dfLast'.op = "try_add"
             /\ TryAdd(base_delta, delta, MaxValue, answer))
            => /\ base_delta # 0 =>
                     /\ dfLast'.ret = "CodeInvariantError"
                     /\ dfLast'.store_reads = 0
                     /\ dfRead' = NoRead
               /\ base_delta = 0 =>
                     /\ dfLast'.store_reads = answer.n_deps + 1
                     /\ answer.outcome = "Ok" =>
                           /\ dfRead'.kind = "HistoryBounded"
                           /\ dfRead'.inner_aggregator_value = answer.value
                           /\ dfRead'.max_value = MaxValue
                           /\ dfLast'.ret = BoolRet(InBounds(answer.value + delta))
                     /\ answer.outcome # "Ok" =>
                           /\ dfRead' = NoRead
                           /\ dfLast'.ret = "InconsistentRead"]_vars

\* The first call read the store after a dependency, was answered a value
\* above zero and accepted a negative delta.
C30_Witness ==
    /\ dfLast.op = "try_add" /\ dfLast.ret = "true" /\ dfLast.store_reads > 1
    /\ dfRead.kind = "HistoryBounded"
    /\ dfRead.inner_aggregator_value > 0
    /\ dfRead.restriction.min_achieved_negative_delta > 0

(***************************************************************************)
(* Claims on the resource reads of the parallel variant under the writes   *)
(* of the transactions below.                                              *)
(***************************************************************************)
\* The read fetch_data yields for the entry of the map under the visible
\* write, if it yields a value.
FetchedRead(entry, written) ==
    IF written.tag = "Write" THEN Some(Versioned("Txn", written.v, written.layout))
    ELSE IF entry.tag = "NoEntry" THEN None
    ELSE IF written.tag = "Delta" THEN Some(ResolvedRead(written.resolved))
    ELSE Some(data_read_from_value_with_layout("Storage", entry))
\* The entry the worker's step fetches, and the kind its call asks for.
StepEntry(w) ==
    IF frame[w].pc = "idle" THEN mv_data ELSE mv_set_base_value(mv_data, frame[w].value)
StepKind(w) == IF frame[w].pc = "idle" THEN resLast'.kind ELSE frame[w].kind
\* The worker's call returned in the step after fetching the map.
ReturnedFromFetch(w) ==
    /\ ResourceRead(w) \/ InstallPatched(w) \/ SetBaseValue(w)
    /\ frame'[w].pc \in {"idle", "halted"}
    /\ resLast'.w = w
    /\ resLast'.queries > 0
\* The fetched read, downcast to the kind asked for, contradicts the weaker
\* read that is captured.
InconsistentUpgrade(existing, kind, fetched) ==
    /\ existing.kind \in {"Exists", "Metadata"}
    /\ ReadKindRank(kind) > ReadKindRank(existing.kind)
    /\ fetched # None
    /\ downcast(TheOne(fetched), kind) # None
    /\ downcast(TheOne(downcast(TheOne(fetched), kind)), existing.kind) # Some(existing)

\* C31: when a worker that captured an Exists or Metadata read of the key
\* asks for a stronger read and fetches, after the visible version changed,
\* a value that contradicts the captured read, the call returns
\* HaltSpeculativeExecution, which the VM receives as
\* SPECULATIVE_EXECUTION_ABORT_ERROR, and the captured read stays; a
\* stronger read that returns a value always agrees with the captured one.
C31_InconsistentUpgradeHalts ==
    [][ReturnedFromFetch(1) =>
          /\ InconsistentUpgrade(data_reads[1], StepKind(1),
                                 FetchedRead(StepEntry(1), mv_written)) =>
                /\ resLast'.result = HaltSpeculativeExecution
                /\ vm_result(resLast'.result) = "SPECULATIVE_EXECUTION_ABORT_ERROR"
                /\ data_reads'[1] = data_reads[1]
          /\ (/\ data_reads[1].kind \in {"Exists", "Metadata"}
              /\ resLast'.result.ret \in {"Value", "Metadata", "Exists"}) =>
                downcast(data_reads'[1], data_reads[1].kind) = Some(data_reads[1])]_vars

\* A Value read halted on a deletion written below while the worker holds
\* the captured read that the key exists.
C31_Witness ==
    /\ data_reads[1] = ExistsRead(TRUE)
    /\ mv_written = ValueWrite(None, None)
    /\ resLast.w = 1 /\ resLast.kind = "Value"
    /\ resLast.result = HaltSpeculativeExecution
    /\ view_flags[1].speculative_failure
    /\ frame[1].pc = "halted"

(***************************************************************************)
(* Claims on the reads that wait for a dependency.                         *)
(***************************************************************************)
\* The queries of the map the call of worker w in flight has made.
QueriesBefore(w) == IF frame[w].pc = "idle" THEN 0 ELSE frame[w].queries
QueriesAfter(w) ==
    IF frame'[w].pc \in {"idle", "halted"} THEN resLast'.queries ELSE frame'[w].queries
\* The queries of the loop of the step, and its calls of wait_for_dependency.
LoopQueries(w) == QueriesAfter(w) - QueriesBefore(w)
LoopWaits == waits' - waits
\* Every query of the loop was answered Dependency: its last wait returned false.
Interrupted(queries) == LoopWaits > 0 /\ queries = LoopWaits

ResWaitingStep ==
    ResourceReadWaiting(1) \/ InstallPatchedWaiting(1) \/ SetBaseValueWaiting(1)
GroupWaitingStep ==
    \/ ResourceGroupSizeWaiting(1)
    \/ GetResourceFromGroupWaiting(1)
    \/ UpdateTaggedBaseValueWaiting(1)
    \/ InitializeGroupWaiting(1)
DFWaitingStep == GetValueWaiting \/ TryAddDeltaWaiting

\* C32: every answer Dependency of the map or of the delayed-field store is
\* followed by a call of wait_for_dependency; after a wait that returned
\* true the store is queried again (the loop makes one query more than it
\* has waits), and after a wait that returned false the read stops: no
\* query follows, nothing is captured and no flag is set, and the read
\* returns HaltSpeculativeExecution (resource), an error (group, group
\* size) or InconsistentRead (get-value, try-add-delta).
C32_DependencyWaits ==
    [][/\ ResWaitingStep =>
            /\ LoopQueries(1) \in {LoopWaits, LoopWaits + 1}
            /\ Interrupted(LoopQueries(1)) =>
                   /\ resLast'.result = HaltSpeculativeExecution
                   /\ frame'[1].pc = "halted"
                   /\ data_reads' = data_reads
                   /\ view_flags' = view_flags
                   /\ mv_data' = mv_data \/ frame[1].pc # "idle"
       /\ GroupWaitingStep =>
            /\ LoopQueries(1) \in {LoopWaits, LoopWaits + 1}
            /\ Interrupted(LoopQueries(1)) =>
                   /\ resLast'.result = ReadError
                   /\ frame'[1].pc = "halted"
                   /\ group_reads' = group_reads
                   /\ view_flags' = view_flags
       /\ DFWaitingStep =>
            /\ dfLast'.store_reads \in {LoopWaits, LoopWaits + 1}
            /\ Interrupted(dfLast'.store_reads) =>
                   /\ dfLast'.ret = "InconsistentRead"
                   /\ dfRead' = dfRead
                   /\ dfFlags' = dfFlags
      ]_vars

\* A resource read waited twice, the second wait returned false and the
\* read halted with nothing captured.
C32_Witness ==
    /\ waits = 2
    /\ dfLast = NoCall
    /\ resLast.kind \in {"Value", "Metadata", "Exists"}
    /\ resLast.queries = 2
    /\ resLast.lookups = 1
    /\ resLast.result = HaltSpeculativeExecution
    /\ frame[1].pc = "halted"
    /\ cached_read(data_reads[1], "Metadata") = None
    /\ ~view_flags[1].speculative_failure

\* What the read of kind and layout of worker w gives when the fetch of the
\* map it starts with is answered DeltaApplicationFailure.
DeltaApplicationFailureTurn(w, req, second) ==
    parallel_turn(mv_data, mv_written, base_view, data_reads[w], view_flags[w], req.kind,
                  gate(req.layout), second, 1, 0, "DeltaApplicationFailure", counter,
                  delayed_fields)

\* C33: when fetch_data answers DeltaApplicationFailure the resource read
\* of the parallel variant sets the delta-application-failure flag of the
\* captured reads and no other flag, captures nothing for the key and
\* returns HaltSpeculativeExecution without reading storage; the flag is
\* set by no other outcome of a read.
C33_DeltaApplicationFailureHalts ==
    /\ [](\A req \in ReadRequests, second \in BOOLEAN :
            LET t == DeltaApplicationFailureTurn(1, req, second)
            IN /\ t.result = HaltSpeculativeExecution
               /\ t.frame = Halted
               /\ t.read = data_reads[1]
               /\ t.flags = [view_flags[1] EXCEPT !.delta_application_failure = TRUE]
               /\ t.base_reads = 0)
    /\ [][(/\ view_flags'[1].delta_application_failure
           /\ ~view_flags[1].delta_application_failure) =>
              /\ resLast'.result = HaltSpeculativeExecution
              /\ frame'[1].pc = "halted"
              /\ data_reads' = data_reads
              /\ view_flags'[1].incorrect_use = view_flags[1].incorrect_use
              /\ view_flags'[1].speculative_failure = view_flags[1].speculative_failure]_vars

\* A first Value read met the failure: it halted with the flag set, no
\* incorrect use and nothing captured.
C33_Witness ==
    /\ resLast.kind = "Value"
    /\ resLast.result = HaltSpeculativeExecution
    /\ resLast.queries = 1
    /\ frame[1].pc = "halted"
    /\ view_flags[1].delta_application_failure
    /\ ~view_flags[1].incorrect_use
    /\ ~view_flags[1].speculative_failure
    /\ data_reads[1] = NoDataRead

(***************************************************************************)
(* Claims on the reads of a tag the group does not hold.                   *)
(***************************************************************************)
\* The read captured for a tag the group does not hold.
AbsentRead == Versioned("Storage", None, None)

\* A call of get_resource_from_group of worker w returned in the step.
TaggedReadReturned(w) ==
    /\ variant = "Sync"
    /\ frame[w].pc \in {"idle", "g_install", "g_init"}
    /\ frame'[w].pc \in {"idle", "halted"}
    /\ resLast'.w = w
    /\ resLast'.kind = "GroupValue"
    /\ GetResourceFromGroup(w) \/ UpdateTaggedBaseValue(w) \/ InitializeGroup(w)

\* C34: when the group is in the map without the tag (fetch_tagged_data
\* answers TagNotFound), get_resource_from_group of the parallel variant
\* returns no value for the tag and captures for it the read of a deletion
\* at the storage version with no layout; a later call for the tag in the
\* attempt is answered as absent from the capture, without a query of the
\* map.
C34_TagNotFoundCaptured ==
    [][TaggedReadReturned(1) =>
          /\ (/\ resLast'.queries > QueriesBefore(1)
              /\ mv_group'.tag = "Group"
              /\ resLast'.tag \notin DOMAIN mv_group'.entries
              /\ resLast'.result # ReadError) =>
                 /\ resLast'.result = ReadValue(None, None)
                 /\ group_reads'[1].tags[resLast'.tag] = AbsentRead
                 /\ view_flags' = view_flags
          /\ (/\ frame[1].pc = "idle"
              /\ group_reads[1].tags[resLast'.tag] = AbsentRead) =>
                 /\ resLast'.result = ReadValue(None, None)
                 /\ resLast'.queries = 0
                 /\ group_reads' = group_reads]_vars

\* The worker was answered from the capture that the tag is absent.
C34_Witness ==
    /\ variant = "Sync"
    /\ resLast.kind = "GroupValue"
    /\ resLast.tag \in Tags
    /\ resLast.result = ReadValue(None, None)
    /\ resLast.queries = 0
    /\ mv_group.tag = "Group"
    /\ resLast.tag \notin DOMAIN mv_group.entries
    /\ group_reads[1].tags[resLast.tag] = AbsentRead

(***************************************************************************)
(* Claims on the errors of storage.                                        *)
(***************************************************************************)
\* A resource read of the view started in the step and read storage.
ReadStorage ==
    /\ frame[1].pc = "idle"
    /\ resLast'.base_reads > 0
    /\ frame'[1].pc \in {"idle", "halted"}
    /\ ResourceRead(1) \/ SequentialResourceRead

\* C35: when storage answers an error to a resource read, the view marks
\* incorrect use (in the captured reads of the worker, or in the flag of
\* the sequential state), leaves the entry of the key in the map as it
\* was, and returns the error; incorrect use, once marked, stays until
\* the attempt ends.
C35_StorageErrorMarksIncorrectUse ==
    [][/\ (base_view = StorageError /\ ReadStorage) =>
              /\ view_flags'[1].incorrect_use
              /\ resLast'.result = ReadError
              /\ mv_data' = mv_data
              /\ data_reads' = data_reads
              /\ frame'[1].pc = "halted"
       /\ (view_flags[1].incorrect_use /\ ~NewAttempt(1)) => view_flags'[1].incorrect_use
      ]_vars

\* The read of a key with no entry met the error of storage.
C35_Witness ==
    /\ base_view = StorageError
    /\ resLast.base_reads = 1
    /\ resLast.lookups = 1
    /\ resLast.result = ReadError
    /\ mv_data = NoEntry
    /\ view_flags[1].incorrect_use
    /\ frame[1].pc = "halted"

(***************************************************************************)
(* Claims on the reads of the value of a delayed field.                    *)
(***************************************************************************)
\* What get_delayed_field_value_impl gives in the state on an answer of the store.
GetValueOn(answer) ==
    get_delayed_field_value_impl(dfRead, dfFlags, answer.value, answer.outcome,
                                 answer.n_deps)

\* C36: a call of get_delayed_field_value_impl that returns a value leaves
\* the Value read of it captured, the Value read stays captured through
\* the later calls on the identifier, and while it is captured the call
\* returns its value without a read of the store, whatever the store would
\* answer; an error of the store that is not a dependency is marked in the
\* flags of the captured reads and returned as InconsistentRead, or as the
\* code invariant error if it is one.
C36_GetValueCached ==
    /\ [](\A answer \in AnswersOf(ReadOutcomes) :
            LET r == GetValueOn(answer)
            IN /\ dfRead.kind = "Value" =>
                     /\ r.ret = "Ok"
                     /\ r.value = dfRead.value
                     /\ r.store_reads = 0
                     /\ r.read = dfRead
                     /\ r.flags = dfFlags
               /\ (dfRead.kind # "Value" /\ answer.outcome = "Error") =>
                     /\ r.ret = "InconsistentRead"
                     /\ r.flags = [dfFlags EXCEPT !.speculative_failure = TRUE]
                     /\ r.read = dfRead
               /\ (dfRead.kind # "Value" /\ answer.outcome = "Panic") =>
                     /\ r.ret = "CodeInvariantError"
                     /\ r.flags = [dfFlags EXCEPT !.incorrect_use = TRUE]
                     /\ r.read = dfRead)
    /\ [][/\ (dfLast'.op = "get_value" /\ dfLast'.ret = "Ok" /\ dfLast' # dfLast) =>
                 dfRead' = ValueRead(dfLast'.value)
          /\ dfRead.kind = "Value" => dfRead' = dfRead
          /\ (dfRead.kind = "Value" /\ GetValue) =>
                 /\ dfLast'.ret = "Ok"
                 /\ dfLast'.value = dfRead.value
                 /\ dfLast'.store_reads = 0]_vars

\* A call was answered from the captured Value read after calls of
\* try-add-delta that followed its capture.
C36_Witness ==
    /\ dfRead.kind = "Value"
    /\ dfLast.op = "get_value"
    /\ dfLast.ret = "Ok"
    /\ dfLast.value = dfRead.value
    /\ dfLast.store_reads = 0
    /\ callerBase # 0

(***************************************************************************)
(* Claims on the entry try-add-delta keeps for an identifier.              *)
(***************************************************************************)
\* What the call gives in the state on an answer of the store.
TryAddOn(max_value, base_delta, delta, answer) ==
    delayed_field_try_add_delta_outcome_impl(dfRead, dfFlags, answer.value, base_delta, delta,
                                             max_value, answer.outcome, answer.n_deps)

\* C37: over the calls of try-add-delta on an identifier the captured
\* HistoryBounded entry keeps the inner_aggregator_value and the max_value
\* of its first capture; only a call that finds nothing captured reads
\* the store, and with an entry captured the result of a call, the entry
\* and the flags it leaves do not depend on what the store would answer.
C37_FixedAnchor ==
    /\ [](dfRead.kind # "None" =>
            \A max_value \in Limits, base_delta \in Deltas, delta \in Deltas :
               \A answer \in AnswersOf(LatestOutcomes) :
                  /\ TryAddOn(max_value, base_delta, delta, answer)
                        = TryAddOn(max_value, base_delta, delta, NoAnswer)
                  /\ TryAddOn(max_value, base_delta, delta, answer).store_reads = 0)
    /\ [][/\ dfRead.kind = "HistoryBounded" =>
                 /\ dfRead'.kind = "HistoryBounded"
                 /\ dfRead'.inner_aggregator_value = dfRead.inner_aggregator_value
                 /\ dfRead'.max_value = dfRead.max_value
          /\ (dfLast'.store_reads > 0 /\ dfLast' # dfLast) => dfRead.kind = "None"
          /\ (dfRead.kind = "None" /\ dfRead'.kind # "None") =>
                 /\ dfLast'.store_reads > 0
                 /\ dfRead'.kind = "HistoryBounded"]_vars

\* The entry captured at a value of the store was updated by a later call
\* and still holds that value and its limit.
C37_Witness ==
    /\ dfRead.kind = "HistoryBounded"
    /\ dfRead.inner_aggregator_value = 1
    /\ dfRead.max_value = MaxValue - 1
    /\ dfLast.op = "try_add"
    /\ dfLast.ret = "true"
    /\ dfLast.store_reads = 0
    /\ dfRead.restriction.max_achieved_positive_delta = 1
    /\ dfRead.restriction.min_achieved_negative_delta = 1

\* The general update of the history, from an empty history and no delta.
FromEmptyHistory(delta, max_value, inner) ==
    compute_delayed_field_try_add_delta_outcome_from_history(0, delta, max_value, NewHistory,
                                                             inner)

\* C38: for every limit, every value of the store within it and every
\* delta whose magnitude is within it, the first-time computation returns
\* the outcome and the HistoryBounded read that the general update returns
\* from an empty history with base_delta 0; the entry a first call
\* captures is that read.
C38_FirstTimeIsUpdateFromEmpty ==
    /\ [](\A max_value \in Limits, inner \in Values, delta \in Deltas :
            (inner <= max_value /\ Abs(delta) <= max_value) =>
               compute_delayed_field_try_add_delta_outcome_first_time(delta, max_value, inner)
                  = FromEmptyHistory(delta, max_value, inner))
    /\ [][(dfRead.kind = "None" /\ dfRead'.kind = "HistoryBounded") =>
             \E delta \in Deltas :
                LET r == FromEmptyHistory(delta, dfRead'.max_value,
                                          dfRead'.inner_aggregator_value)
                IN /\ r.err = "Ok"
                   /\ r.read = dfRead'
                   /\ BoolRet(r.result) = dfLast'.ret]_vars

\* The first call on the identifier was refused and captured the entry
\* with the forbidden delta.
C38_Witness ==
    /\ dfRead.kind = "HistoryBounded"
    /\ dfRead.inner_aggregator_value = 1
    /\ dfRead.max_value = MaxValue - 1
    /\ dfRead.restriction = record_overflow(NewHistory, MaxValue - 1)
    /\ dfLast.op = "try_add"
    /\ dfLast.ret = "false"
    /\ dfLast.store_reads > 0

\* What the call with delta gives in the state when the store answers the
\* value it holds for the identifier.
TryAddOnStored(delta, n_deps) ==
    delayed_field_try_add_delta_outcome_impl(dfRead, dfFlags, delayed_fields[TheId].v,
                                             callerBase, delta, MaxValue, "Ok", n_deps)

\* C39: with a value of the store within the limit, one limit, and a
\* caller whose base_delta starts at 0 and grows by the delta of every
\* call that returned true, no call of
\* delayed_field_try_add_delta_outcome_impl returns a code invariant
\* error, whatever the sign and the magnitude of its delta: every call
\* returns true or false and marks no incorrect use.
C39_NoInvariantError ==
    /\ [](variant = "Sync" =>
            \A delta \in Deltas, n_deps \in DepCounts :
               /\ TryAddOnStored(delta, n_deps).ret \in {"true", "false"}
               /\ TryAddOnStored(delta, n_deps).flags = dfFlags)
    /\ [][(variant = "Sync" /\ dfLast'.op = "try_add") =>
             /\ dfLast'.ret \in {"true", "false"}
             /\ dfFlags' = NoFlags]_vars

\* After calls that moved base_delta to -2, a positive delta was refused
\* and recorded relative to the value of the store.
C39_Witness ==
    /\ variant = "Sync"
    /\ delayed_fields[TheId].v = MaxValue
    /\ callerBase = -2
    /\ dfRead.kind = "HistoryBounded"
    /\ dfRead.restriction.min_achieved_negative_delta = 2
    /\ dfRead.restriction.min_overflow_positive_delta = Some(1)
    /\ dfLast.ret = "false"

(***************************************************************************)
(* Claims on the reads of a key the map holds no base value of.            *)
(***************************************************************************)
\* fetch_data answers the worker Uninitialized, or Unresolved for the delta
\* of a transaction below, unless it answers a dependency or a failure.
NoBaseValue == mv_data.tag = "NoEntry" /\ mv_written.tag # "Write"

ReadSucceeded == resLast'.result.ret \in {"Value", "Metadata", "Exists"}

\* C40: a first lookup of the parallel variant on a key without a base
\* value in the map leaves the captured reads as they were, whether the
\* call goes on to read storage or ends; the read is captured by the
\* second lookup, after the base value is installed, and a resource read
\* that succeeds after a fetch leaves for the key the one captured read
\* its result is the view of.
C40_UninitializedCapturesNothing ==
    [][/\ (frame[1].pc = "idle" /\ NoBaseValue /\ ResourceRead(1)) =>
              /\ data_reads' = data_reads
              /\ frame'[1].pc = "set_base" =>
                     /\ view_flags' = view_flags
                     /\ frame'[1].queries = 1
                     /\ frame'[1].base_reads = 1
              /\ frame'[1].pc # "set_base" => ~ReadSucceeded \/ resLast'.queries = 0
       /\ (frame[1].pc = "set_base" /\ SetBaseValue(1) /\ ReadSucceeded) =>
              /\ cached_read(data_reads[1], frame[1].kind) = None
              /\ resLast'.lookups = 2
              /\ resLast'.queries = 2
       /\ (ReturnedFromFetch(1) /\ ReadSucceeded) =>
              /\ data_reads'[1].kind # "None"
              /\ resLast'.result
                    = from_data_read(TheOne(downcast(data_reads'[1], resLast'.kind)))
      ]_vars

\* The first lookup met the delta of a transaction below on a key without
\* a base value and captured nothing; the second lookup captured the
\* resolved value.
C40_Witness ==
    /\ mv_written.tag = "Delta"
    /\ resLast.lookups = 2
    /\ resLast.queries = 2
    /\ resLast.base_reads = 1
    /\ resLast.kind = "Value"
    /\ resLast.result.ret = "Value"
    /\ data_reads[1] = ResolvedRead(mv_written.resolved)
    /\ frame[1].pc = "idle"
====
